---- MODULE Spec2Model ----
(***************************************************************************)
(* State-machine models of the resumable batch-processing scripts of the   *)
(* repository: the UNGDC embeddings generator, the interactive evaluation  *)
(* scripts, the batch scripts and the tagging scripts.  Every script is a  *)
(* family of variables with its own initial condition, actions and         *)
(* specification; a family that a specification does not run stays "off".  *)
(***************************************************************************)
EXTENDS Integers, Sequences, FiniteSets, TLC

VARIABLES
    \* ---- scripts/ungdc_embedding_generator_01.py -------------------------
    e_pc,                  \* position of the generate_embeddings process
    e_runs,                \* number of times generate_embeddings was started
    nChunks,               \* rows of the chunk file inside the year range
    e_batch_size,          \* self.batch_size
    max_retries,           \* self.max_retries
    checkpoint_frequency,  \* self.checkpoint_frequency
    year_dir,              \* the files of embeddings_<start>_<end>/
    all_embeddings,        \* local list all_embeddings
    df_filtered,           \* local DataFrame df_filtered (chunk ids, in order)
    chunks,                \* local list chunks
    start_idx,             \* local start_idx
    e_i,                   \* loop variable i of the batch loop
    e_batch_num,           \* loop variable batch_num
    retry_count,           \* retry_count of the innermost _generate_batch_embeddings
    api_log,               \* outcomes of the co.embed calls made for the current batch
    e_prev,                \* how the previous run of the process ended
    last_sleep,            \* sequence of time.sleep arguments of the current batch
    usage_stats,           \* self.usage_stats
    \* ---- scripts/LLM/socialfact_eval_01.py, scripts/LLM/agency_eval_10.py ---
    v_pc,                  \* position of main
    v_script,              \* which of the two scripts runs
    v_runs,                \* number of times main was started
    v_nRows,               \* rows of the input file (DataFrame index 0..n-1)
    results_file,          \* results.jsonl / intermediate_results.jsonl: its lines
    final_results_file,    \* final_results.jsonl of agency_eval_10 (<<>> : absent)
    v_results,             \* local list results
    completed_rows,        \* local set completed_rows
    v_data,                \* index values of the DataFrame that main iterates
    v_pos,                 \* rows of v_data the loop has iterated
    v_loaded,              \* the records load_previous_results returned at startup
    v_sent,                \* Row ids sent to the chat API in this run
    \* ---- scripts/LLM/socialfact_batch_02.py, scripts/LLM/socialfact_batch_03.py
    b_pc,                  \* position of main
    b_script,              \* which of the two scripts runs
    b_api,                 \* the chat API of this run: "reliable" or "faulty"
    b_results,             \* local list results
    batch_number,          \* local batch_number of socialfact_batch_03
    output_folder,         \* the result files of the output folder: name -> records
    b_writes,              \* the files written so far, in order of writing
    b_outcomes,            \* outcome of the chat API call of each row so far
    \* ---- scripts/LLM/AgentPassive_tag_01.py (compcrit_tag_03.py and
    \*      institution_tag_02.py have the same main and process_batch) ------
    t_pc,                  \* position of main
    t_runs,                \* number of times main was started
    t_api,                 \* the chat API of this run: "reliable" or "faulty"
    t_nRows,               \* len(df) of this run
    t_batch_size,          \* batch_size typed in for this run
    temp_dir,              \* the files batch_<k>.jsonl of the temp directory: k -> records
    output_path,           \* the combined output file (<<>> : absent)
    t_batch_num,           \* loop variable batch_num
    t_results,             \* local list results of process_batch
    t_outcomes,            \* outcome of the chat API call of each row of the batch loop
    t_preview,             \* outcome of the example call for the first row ("none" : not made)
    t_sent,                \* the rows passed to the API by this run, in order of the calls
    \* ---- scripts/LLM/run_inductive_relationship_01.py ----------------------
    i_pc,                  \* position of process_documents
    i_results,             \* local list results
    i_outcomes,            \* outcome of run_prompt for each group iterated so far
    i_output_dir,          \* the files of output_dir: name -> records
    \* ---- scripts/LLM/typology_01.py ----------------------------------------
    y_pc,                  \* position of main
    y_nRows,               \* entries of the input with a 'Filtered Prompt Output'
    y_all_results,         \* local list all_results
    y_outcomes,            \* outcome of analyze_diplomatic_batch for each batch so far
    y_output,              \* diplomatic_analysis_<timestamp>.jsonl (<<>> : absent)
    \* ---- batch segmentation (typology_01/02.process_batches, tag main) ----
    s_pc,                  \* which segmentation has been applied
    s_data,                \* the input rows
    s_batch_size,          \* the batch size
    s_batches,             \* the batches produced
    \* ---- scripts/sample_and_preprocess_01.py --------------------------------
    p_pc,                  \* outcome of the last call of sample_data
    source_data,           \* the doc_id of every row of SOURCE_FILE
    log_file,              \* the sampling log: <<>> (absent) or <<set of ids>>
    sampled_rounds,        \* the rows returned by the successful rounds, in order
    \* ---- scripts/iso_posteval_patterns_drops_01.py ---------------------------
    m_pc,                  \* position of the merging script
    master_file,           \* the master JSONL file: <<>> (absent) or <<entries>>
    new_file,              \* the entries of the new JSONL file
    m_before,              \* the master file before the last call of merge_jsonl
    m_merges,              \* calls of merge_jsonl so far
    \* ---- scripts/RAG/rerank_02.py (process_document) -------------------------
    r_pc,                  \* position in process_document
    r_chunk_ids,           \* chunk_id of each row of the document in full_data
    r_results,             \* response.results: the rows (result.index) by relevance
    r_i,                   \* loop index i (0-based) into response.results
    human_annotation,      \* full_data['human_annotation'] of each row
    relevance_score,       \* full_data['relevance_score'] of each row
    r_choice,              \* the menu option that ended the loop ("none": no option)
    r_status,              \* the value returned ("none": not returned)
    \* ---- scripts/batch_doc_retrieval_01.py (process_documents) ---------------
    d_pc,                  \* position in process_documents
    d_stats,               \* self.stats (the counters)
    d_idx,                 \* documents iterated so far
    d_paths,               \* the path each iteration took
    d_files                \* the documents whose <doc_id>_retrieval.json is written

embVars == <<e_pc, e_runs, nChunks, e_batch_size, max_retries, checkpoint_frequency,
             year_dir, all_embeddings, df_filtered, chunks, start_idx, e_i,
             e_batch_num, retry_count, api_log, e_prev, last_sleep, usage_stats>>

evalVars == <<v_pc, v_script, v_runs, v_nRows, results_file, final_results_file,
              v_results, completed_rows, v_data, v_pos, v_loaded, v_sent>>

batchVars == <<b_pc, b_script, b_api, b_results, batch_number, output_folder, b_writes,
               b_outcomes>>

tagVars == <<t_pc, t_runs, t_api, t_nRows, t_batch_size, temp_dir, output_path,
             t_batch_num, t_results, t_outcomes, t_preview, t_sent>>

indVars == <<i_pc, i_results, i_outcomes, i_output_dir>>

typVars == <<y_pc, y_nRows, y_all_results, y_outcomes, y_output>>

segVars == <<s_pc, s_data, s_batch_size, s_batches>>

sampleVars == <<p_pc, source_data, log_file, sampled_rounds>>

mergeVars == <<m_pc, master_file, new_file, m_before, m_merges>>

rerankVars == <<r_pc, r_chunk_ids, r_results, r_i, human_annotation, relevance_score,
                r_choice, r_status>>

retrVars == <<d_pc, d_stats, d_idx, d_paths, d_files>>

utilVars == <<sampleVars, mergeVars, rerankVars, retrVars>>

scriptVars == <<embVars, evalVars, batchVars, tagVars, indVars, typVars, segVars>>

vars == <<scriptVars, utilVars>>

notEmb == <<evalVars, batchVars, tagVars, indVars, typVars, segVars, utilVars>>

notEval == <<embVars, batchVars, tagVars, indVars, typVars, segVars, utilVars>>

notBatch == <<embVars, evalVars, tagVars, indVars, typVars, segVars, utilVars>>

notTag == <<embVars, evalVars, batchVars, indVars, typVars, segVars, utilVars>>

notInd == <<embVars, evalVars, batchVars, tagVars, typVars, segVars, utilVars>>

notTyp == <<embVars, evalVars, batchVars, tagVars, indVars, segVars, utilVars>>

notSeg == <<embVars, evalVars, batchVars, tagVars, indVars, typVars, utilVars>>

notSample == <<scriptVars, mergeVars, rerankVars, retrVars>>

notMerge == <<scriptVars, sampleVars, rerankVars, retrVars>>

notRerank == <<scriptVars, sampleVars, mergeVars, retrVars>>

notRetr == <<scriptVars, sampleVars, mergeVars, rerankVars>>

(***************************************************************************)
(* Bounds of the model.                                                    *)
(***************************************************************************)
MaxChunks == 4
MaxEmbBatch == 2
MaxFreq == 2
MaxRetriesCfg == 3
MaxRuns == 2
MaxEvalRows == 2
MaxEvalRuns == 2
MaxBatchRows == 101
MaxFaultyRows == 6
MaxTagRows == 11
MaxTagBatch == 2
MaxFaultyTagRows == 4
MaxTagRuns == 2
MaxGroups == 21
MaxGroupErrors == 2
MaxTypRows == 41
MaxSegRows == 12
MaxSegBatch == 5
MaxDocs == 3
MaxDocIds == 2
MaxRounds == 2
MaxEntries == 2
MaxMerges == 2
MaxDocChunks == 3
MaxRetrDocs == 4
MaxTargets == 2

(***************************************************************************)
(* Generic helpers.                                                        *)
(***************************************************************************)
Range(s) == {s[k] : k \in 1..Len(s)}

Min(a, b) == IF a <= b THEN a ELSE b

\* Python slice s[a:b] for 0 <= a, with b clipped to len(s)
Slice(s, a, b) == SubSeq(s, a + 1, Min(b, Len(s)))

IsPrefix(s, t) == Len(s) <= Len(t) /\ SubSeq(t, 1, Len(s)) = s

SetMax(S) == CHOOSE m \in S : \A x \in S : x <= m

(***************************************************************************)
(* ungdc_embedding_generator_01.py                                         *)
(***************************************************************************)
\* df[year_mask]: the chunk rows of the year range, identified 1..nChunks
YearRangeChunks == [k \in 1..nChunks |-> k]

\* The embed API returns one embedding per text, in order; the embedding of
\* chunk c is written Emb(c).
Emb(c) == <<"emb", c>>

EmbedResponse(batch) == [k \in 1..Len(batch) |-> Emb(batch[k])]

NewUsageStats == [total_chunks |-> 0, total_api_calls |-> 0,
                  failed_calls |-> 0, retried_calls |-> 0]

EmptyYearDir == [ckpt |-> <<>>,          \* checkpoint_<n>/ : n -> contents
                 final_error |-> <<>>,   \* checkpoint_final_error/ (<<>> : absent)
                 embeddings_npy |-> <<>>,  \* <<array>> once written
                 chunks_csv |-> <<>>,      \* <<rows>> once written
                 metadata |-> <<>>]

\* Variants of the retry test: one retry too many, one retry too few
ShouldRetryOnceMore(is_rate_limit, rc) == is_rate_limit /\ rc <= max_retries

ShouldRetryOnceLess(is_rate_limit, rc) == is_rate_limit /\ rc < max_retries - 1

\* A variant of the retry test that retries whatever the message says
ShouldRetryAnyError(is_rate_limit, rc) == rc < max_retries

\* "rate_limit" in str(e).lower() and retry_count < self.max_retries
ShouldRetry(is_rate_limit, rc) == is_rate_limit /\ rc < max_retries

\* time.sleep(20 * (retry_count + 1))
BackoffBase == 20
BackoffDelay(rc) == BackoffBase * (rc + 1)

\* batch_num % self.checkpoint_frequency == 0
CheckpointDue(bn) == bn % checkpoint_frequency = 0

\* _save_checkpoint: embeddings, processed chunks and usage stats
CheckpointOf(embs, processed, stats) ==
    [embeddings |-> embs, chunks |-> processed, usage_stats |-> stats]

\* A variant that saves the whole frame with a checkpoint
ProcessedChunksWholeFrame(df, embs) == df

\* df_filtered.iloc[:len(all_embeddings)]
ProcessedChunks(df, embs) == Slice(df, 0, Len(embs))

SaveNumberedCheckpoint(dir, embs, df, bn, stats) ==
    [dir EXCEPT !.ckpt = [n \in (DOMAIN dir.ckpt) \cup {bn} |->
        IF n = bn THEN CheckpointOf(embs, ProcessedChunks(df, embs), stats)
                  ELSE dir.ckpt[n]]]

SaveErrorCheckpoint(dir, embs, df, stats) ==
    [dir EXCEPT !.final_error =
        <<CheckpointOf(embs, ProcessedChunks(df, embs), stats)>>]

\* year_dir.glob("checkpoint_*") is non-empty
HasCheckpoints(dir) == DOMAIN dir.ckpt # {} \/ dir.final_error # <<>>

\* int(x.name.split('_')[1]) raises ValueError for checkpoint_final_error
LoadRaises(dir) == dir.final_error # <<>>

\* max(checkpoints, key=lambda x: int(x.name.split('_')[1]))
LatestCheckpoint(dir) == dir.ckpt[SetMax(DOMAIN dir.ckpt)]

\* df_filtered as left by the checkpoint logic of lines 137-145
ResumedFrame(ck) == ck.chunks

\* The state before the first run: nothing on disk, no process
ELocals ==
    /\ e_runs = 0
    /\ year_dir = EmptyYearDir
    /\ all_embeddings = <<>>
    /\ df_filtered = <<>>
    /\ chunks = <<>>
    /\ start_idx = 0
    /\ e_i = 0
    /\ e_batch_num = 0
    /\ retry_count = 0
    /\ api_log = <<>>
    /\ e_prev = "none"
    /\ last_sleep = <<>>
    /\ usage_stats = NewUsageStats

EInit ==
    /\ e_pc = "idle"
    /\ nChunks \in 0..MaxChunks
    /\ e_batch_size \in 1..MaxEmbBatch
    /\ max_retries \in 0..MaxRetriesCfg
    /\ checkpoint_frequency \in 1..MaxFreq
    /\ ELocals

EOff ==
    /\ e_pc = "off"
    /\ nChunks = 0
    /\ e_batch_size = 1
    /\ max_retries = 0
    /\ checkpoint_frequency = 1
    /\ ELocals

ECfg == <<nChunks, e_batch_size, max_retries, checkpoint_frequency>>

\* generate_embeddings, lines 122-149: load the chunks, look for a checkpoint
EStart ==
    /\ UNCHANGED notEmb
    /\ e_pc \in {"idle", "killed", "done", "raised"}
    /\ e_runs < MaxRuns
    /\ e_runs' = e_runs + 1
    /\ e_prev' = e_pc
    /\ retry_count' = 0
    /\ api_log' = <<>>
    /\ last_sleep' = <<>>
    /\ e_i' = 0
    /\ IF HasCheckpoints(year_dir) /\ LoadRaises(year_dir)
       THEN /\ e_pc' = "raised"
            /\ all_embeddings' = <<>>
            /\ df_filtered' = YearRangeChunks
            /\ chunks' = <<>>
            /\ start_idx' = 0
            /\ e_batch_num' = 0
            /\ usage_stats' = NewUsageStats
       ELSE IF HasCheckpoints(year_dir)
       THEN LET ck == LatestCheckpoint(year_dir) IN
            /\ e_pc' = "loop"
            /\ all_embeddings' = ck.embeddings
            /\ df_filtered' = ResumedFrame(ck)
            /\ usage_stats' = ck.usage_stats
            /\ start_idx' = Len(ck.embeddings)
            /\ chunks' = Slice(ResumedFrame(ck), Len(ck.embeddings), Len(ResumedFrame(ck)))
            /\ e_batch_num' = Len(ck.embeddings) \div e_batch_size
       ELSE /\ e_pc' = "loop"
            /\ all_embeddings' = <<>>
            /\ df_filtered' = YearRangeChunks
            /\ usage_stats' = NewUsageStats
            /\ start_idx' = 0
            /\ chunks' = YearRangeChunks
            /\ e_batch_num' = 0
    /\ UNCHANGED <<ECfg, year_dir>>

\* A variant of the slice that takes one chunk more
CurrentBatchOneMore == Slice(chunks, e_i, e_i + e_batch_size + 1)

\* chunks[i:i + self.batch_size]
CurrentBatch == Slice(chunks, e_i, e_i + e_batch_size)

InBatchLoop == e_pc = "loop" /\ e_i < Len(chunks)

\* The top-level call _generate_batch_embeddings(batch) starts with retry_count = 0:
\* the log of API outcomes and of sleeps of a batch starts afresh there.
Logged(outcome) == Append(IF retry_count = 0 THEN <<>> ELSE api_log, outcome)

SleepsSoFar == IF retry_count = 0 THEN <<>> ELSE last_sleep

\* co.embed returns: lines 59-65, then lines 159-173 of the loop body
EApiOk ==
    /\ UNCHANGED notEmb
    /\ InBatchLoop
    /\ LET embs == all_embeddings \o EmbedResponse(CurrentBatch)
           stats == [usage_stats EXCEPT
                        !.total_chunks = @ + Len(CurrentBatch),
                        !.total_api_calls = @ + 1]
       IN /\ all_embeddings' = embs
          /\ usage_stats' = stats
          /\ year_dir' = IF CheckpointDue(e_batch_num)
                         THEN SaveNumberedCheckpoint(year_dir, embs, df_filtered,
                                                     e_batch_num, stats)
                         ELSE year_dir
    /\ e_i' = e_i + e_batch_size
    /\ e_batch_num' = e_batch_num + 1
    /\ retry_count' = 0
    /\ api_log' = Logged("ok")
    /\ last_sleep' = SleepsSoFar
    /\ UNCHANGED <<e_pc, e_runs, e_prev, ECfg, df_filtered, chunks, start_idx>>

\* A variant that records the failure in the usage statistics only and lets
\* the loop go on
ERecordAndGoOn(stats) ==
    /\ year_dir' = year_dir
    /\ e_pc' = e_pc

\* The except branch of generate_embeddings, lines 175-184
ERaiseFromLoop(stats) ==
    /\ year_dir' = SaveErrorCheckpoint(year_dir, all_embeddings, df_filtered, stats)
    /\ e_pc' = "raised"

\* co.embed raises a CohereError: lines 67-77
EApiCohereError(is_rate_limit) ==
    /\ UNCHANGED notEmb
    /\ InBatchLoop
    /\ api_log' = Logged(IF is_rate_limit THEN "rate_limit" ELSE "error")
    /\ LET failed == [usage_stats EXCEPT !.failed_calls = @ + 1] IN
       IF ShouldRetry(is_rate_limit, retry_count)
       THEN /\ usage_stats' = [failed EXCEPT !.retried_calls = @ + 1]
            /\ last_sleep' = Append(SleepsSoFar, BackoffDelay(retry_count))
            /\ retry_count' = retry_count + 1
            /\ UNCHANGED <<e_pc, year_dir>>
       ELSE /\ usage_stats' = failed
            /\ ERaiseFromLoop(failed)
            /\ last_sleep' = SleepsSoFar
            /\ UNCHANGED retry_count
    /\ UNCHANGED <<e_runs, e_prev, ECfg, all_embeddings, df_filtered, chunks, start_idx,
                   e_i, e_batch_num>>

ERateLimit == EApiCohereError(TRUE)

ECohereError == EApiCohereError(FALSE)

\* co.embed raises an exception that is no CohereError: not caught at line 67
EOtherException ==
    /\ UNCHANGED notEmb
    /\ InBatchLoop
    /\ api_log' = Logged("exception")
    /\ last_sleep' = SleepsSoFar
    /\ ERaiseFromLoop(usage_stats)
    /\ UNCHANGED <<e_runs, e_prev, ECfg, all_embeddings, df_filtered, chunks, start_idx,
                   e_i, e_batch_num, retry_count, usage_stats>>

\* Lines 186-221: the final outputs.  embeddings_array.shape[1] raises
\* IndexError for an empty array, after embeddings.npy was saved.
EFinish ==
    /\ UNCHANGED notEmb
    /\ e_pc = "loop"
    /\ e_i >= Len(chunks)
    /\ IF all_embeddings = <<>>
       THEN /\ year_dir' = [year_dir EXCEPT !.embeddings_npy = <<all_embeddings>>]
            /\ e_pc' = "raised"
       ELSE /\ year_dir' = [year_dir EXCEPT
                               !.embeddings_npy = <<all_embeddings>>,
                               !.metadata = <<[num_chunks |-> Len(df_filtered)]>>,
                               !.chunks_csv = <<df_filtered>>]
            /\ e_pc' = "done"
    /\ UNCHANGED <<e_runs, ECfg, all_embeddings, df_filtered, chunks, start_idx,
                   e_i, e_batch_num, retry_count, api_log, e_prev, last_sleep, usage_stats>>

\* The operator kills the process between two batches
EKill ==
    /\ UNCHANGED notEmb
    /\ e_pc = "loop"
    /\ e_pc' = "killed"
    /\ UNCHANGED <<e_runs, e_prev, ECfg, year_dir, all_embeddings, df_filtered, chunks,
                   start_idx, e_i, e_batch_num, retry_count, api_log,
                   last_sleep, usage_stats>>

ENext == EStart \/ EApiOk \/ ERateLimit \/ ECohereError \/ EOtherException
         \/ EFinish \/ EKill

(***************************************************************************)
(* socialfact_eval_01.py and agency_eval_10.py                             *)
(***************************************************************************)
EvalScripts == {"socialfact_eval_01", "agency_eval_10"}

\* pd.read_csv(...): a RangeIndex 0..n-1
InputIndex == [k \in 1..v_nRows |-> k - 1]

\* The sequences of distinct index values drawn from 0..n-1
RECURSIVE DistinctSeqs(_, _)
DistinctSeqs(S, len) ==
    IF len = 0 THEN {<<>>}
    ELSE {<<>>} \cup {<<x>> \o t : x \in S, t \in DistinctSeqs(S, len - 1)}

IsInjective(s) == \A a, b \in 1..Len(s) : s[a] = s[b] => a = b

\* subset_data and the self-mention filter of agency_eval_10 keep any rows of
\* the input ('random x' in any order); socialfact_eval_01 iterates them all.
IteratedData(script) ==
    IF script = "agency_eval_10"
    THEN {d \in DistinctSeqs(0..(v_nRows - 1), v_nRows) : IsInjective(d)}
    ELSE {InputIndex}

\* One line of the results file: json.dumps(result) + "\n", or the beginning of it
Line(rec) == [rec |-> rec, complete |-> TRUE]

TornLine(rec) == [rec |-> rec, complete |-> FALSE]

\* save_results / save_intermediate_results: open(..., 'w') and one line per result
WrittenFile(results) == [k \in 1..Len(results) |-> Line(results[k])]

\* The file a save leaves when it stops after k whole lines, the next one
\* begun (torn) or not
PartialFile(results, k, torn) ==
    [j \in 1..k |-> Line(results[j])]
        \o (IF torn THEN <<TornLine(results[k + 1])>> ELSE <<>>)

\* json.loads(line.strip()) raises on a line that is not a whole JSON object
ParseRaises(file) == \E k \in 1..Len(file) : ~file[k].complete

\* load_previous_results: one record per line (no file: [])
LoadPreviousResults(file) == [k \in 1..Len(file) |-> file[k].rec]

\* {result["Row"] for result in results}
RowIds(results) == {results[k].Row : k \in 1..Len(results)}

\* A variant of the test that forgets the "+ 1" of the Row id
AlreadyDoneByIndex(index) == index \in completed_rows

\* if index + 1 in completed_rows: continue
AlreadyDone(index) == index + 1 \in completed_rows

\* A variant that records the index itself as the Row id
ResultRecordRowIsIndex(index, adequate) ==
    [Row |-> index, index |-> index, Adequate |-> adequate]

\* The record appended for a row: "Row": index + 1, the row and the evaluation
ResultRecord(index, adequate) == [Row |-> index + 1, index |-> index, Adequate |-> adequate]

VLocals ==
    /\ v_runs = 0
    /\ results_file = <<>>
    /\ final_results_file = <<>>
    /\ v_results = <<>>
    /\ completed_rows = {}
    /\ v_data = <<>>
    /\ v_pos = 0
    /\ v_loaded = <<>>
    /\ v_sent = <<>>

VInit ==
    /\ v_pc = "idle"
    /\ v_script \in EvalScripts
    /\ v_nRows \in 0..MaxEvalRows
    /\ VLocals

VOff ==
    /\ v_pc = "off"
    /\ v_script = "socialfact_eval_01"
    /\ v_nRows = 0
    /\ VLocals

VCfg == <<v_script, v_nRows>>

\* main up to the loop: load the previous results, read and subset the input
VStart ==
    /\ UNCHANGED notEval
    /\ v_pc \in {"idle", "killed", "done", "raised"}
    /\ v_runs < MaxEvalRuns
    /\ v_runs' = v_runs + 1
    /\ v_pos' = 0
    /\ v_sent' = <<>>
    /\ IF ParseRaises(results_file)
       THEN /\ v_pc' = "raised"
            /\ v_results' = <<>>
            /\ v_loaded' = <<>>
            /\ completed_rows' = {}
            /\ v_data' = <<>>
       ELSE /\ v_pc' = "loop"
            /\ v_results' = LoadPreviousResults(results_file)
            /\ v_loaded' = LoadPreviousResults(results_file)
            /\ completed_rows' = RowIds(LoadPreviousResults(results_file))
            /\ v_data' \in IteratedData(v_script)
    /\ UNCHANGED <<VCfg, results_file, final_results_file>>

InEvalLoop == v_pc = "loop" /\ v_pos < Len(v_data)

CurrentIndex == v_data[v_pos + 1]

\* if index + 1 in completed_rows: continue
VSkipRow ==
    /\ UNCHANGED notEval
    /\ InEvalLoop
    /\ AlreadyDone(CurrentIndex)
    /\ v_pos' = v_pos + 1
    /\ UNCHANGED <<v_pc, VCfg, v_runs, results_file, final_results_file, v_results,
                   completed_rows, v_data, v_loaded, v_sent>>

\* One iteration of the loop body: the API call, the evaluation typed in, the
\* append and the save; then the answer to "continue?"
VProcessRow ==
    /\ UNCHANGED notEval
    /\ InEvalLoop
    /\ ~AlreadyDone(CurrentIndex)
    /\ v_sent' = Append(v_sent, CurrentIndex + 1)
    /\ \E adequate \in {0, 1}, proceed \in {"yes", "no"} :
          /\ v_results' = Append(v_results, ResultRecord(CurrentIndex, adequate))
          /\ results_file' = WrittenFile(v_results')
          /\ v_pc' = IF proceed = "yes" THEN "loop" ELSE "broke"
    /\ v_pos' = v_pos + 1
    /\ UNCHANGED <<VCfg, v_runs, final_results_file, completed_rows, v_data, v_loaded>>

\* The same iteration, with the save failing or the process killed after the
\* file was opened for writing and before all records were written
VSaveInterrupted ==
    /\ UNCHANGED notEval
    /\ InEvalLoop
    /\ ~AlreadyDone(CurrentIndex)
    /\ v_sent' = Append(v_sent, CurrentIndex + 1)
    /\ v_results' = Append(v_results, ResultRecord(CurrentIndex, 1))
    /\ \E k \in 0..Len(v_results), torn \in BOOLEAN :
          results_file' = PartialFile(v_results', k, torn)
    /\ v_pc' = "killed"
    /\ v_pos' = v_pos + 1
    /\ UNCHANGED <<VCfg, v_runs, final_results_file, completed_rows, v_data, v_loaded>>

\* After the loop: socialfact_eval_01 prints; agency_eval_10 writes
\* final_results.jsonl (lines 289-294)
VFinish ==
    /\ UNCHANGED notEval
    /\ \/ v_pc = "loop" /\ v_pos >= Len(v_data)
       \/ v_pc = "broke"
    /\ v_pc' = "done"
    /\ final_results_file' = IF v_script = "agency_eval_10"
                             THEN <<WrittenFile(v_results)>>
                             ELSE final_results_file
    /\ UNCHANGED <<VCfg, v_runs, results_file, v_results, completed_rows, v_data,
                   v_pos, v_loaded, v_sent>>

\* The process is killed between a save and the next row
VKill ==
    /\ UNCHANGED notEval
    /\ v_pc \in {"loop", "broke"}
    /\ v_pc' = "killed"
    /\ UNCHANGED <<VCfg, v_runs, results_file, final_results_file, v_results,
                   completed_rows, v_data, v_pos, v_loaded, v_sent>>

VNext == VStart \/ VSkipRow \/ VProcessRow \/ VSaveInterrupted \/ VFinish \/ VKill

(***************************************************************************)
(* socialfact_batch_02.py and socialfact_batch_03.py                       *)
(***************************************************************************)
BatchScripts == {"socialfact_batch_02", "socialfact_batch_03"}

\* batch_size = 50 of socialfact_batch_03; the literal 50 of socialfact_batch_02
batch_size == 50

\* analyze_social_facts: the stripped response text, or f"Error: {str(e)}"
\* (strings are sequences of pieces; the first piece of an error is "Error: ")
ResponseText(row) == <<"response", row>>

ErrorText == <<"Error: ", "exception message">>

Analysis(row, outcome) == IF outcome = "raise" THEN ErrorText ELSE ResponseText(row)

StartsWithError(analysis) == Len(analysis) >= 1 /\ analysis[1] = "Error: "

\* result = {"Row": count, **row.to_dict(), "Analysis": analysis}
BatchRecord(count, analysis) ==
    [Row |-> count, Analysis |-> analysis, extracted_output |-> "absent"]

\* save_batch_results of socialfact_batch_03 adds extracted_output to each
\* result dict it writes (the dicts are shared with the list results)
WithExtracted(rec) == [rec EXCEPT !.extracted_output = "set"]

MarkExtracted(results, from, to) ==
    [k \in 1..Len(results) |->
        IF from <= k /\ k <= to THEN WithExtracted(results[k]) ELSE results[k]]

\* A variant of the cadence test that saves half as often
SaveDueHalfAsOften(count) == count % (2 * batch_size) = 0

\* A variant of the cadence test that is one row late
SaveDueLate(count) == count % batch_size = 1

\* if count % 50 == 0 / if count % batch_size == 0
SaveDue(count) == count % batch_size = 0

\* A variant that writes only the newest batch_size records
WriteNewestOnly(folder, name, recs) ==
    [f \in (DOMAIN folder) \cup {name} |->
        IF f = name
        THEN SubSeq(recs, (IF Len(recs) > batch_size THEN Len(recs) - batch_size + 1 ELSE 1),
                    Len(recs))
        ELSE folder[f]]

\* open(output_file, 'w') and one line per result: the file holds the records
WriteFile(folder, name, recs) ==
    [f \in (DOMAIN folder) \cup {name} |-> IF f = name THEN recs ELSE folder[f]]

\* batch_results.jsonl
BatchResultsFile == "batch_results.jsonl"

\* f"batch_results_{batch_num}.jsonl"
NumberedResultsFile(num) == <<"batch_results_", num, ".jsonl">>

\* A variant that takes the whole list
LastNWholeList(results, n) == results

\* results[-n:] for 0 < n
LastN(results, n) ==
    SubSeq(results, (IF n >= Len(results) THEN 1 ELSE Len(results) - n + 1), Len(results))

EmptyFolder == [f \in {} |-> <<>>]

\* The rows explored: long runs against an API that never raises, and runs of
\* up to MaxFaultyRows rows against an API that may raise for any row
RowLimit == IF b_api = "faulty" THEN MaxFaultyRows ELSE MaxBatchRows

BLocals ==
    /\ b_results = <<>>
    /\ batch_number = 1
    /\ output_folder = EmptyFolder
    /\ b_writes = <<>>
    /\ b_outcomes = <<>>

BInit ==
    /\ b_pc = "loop"
    /\ b_script \in BatchScripts
    /\ b_api \in {"reliable", "faulty"}
    /\ BLocals

BOff ==
    /\ b_pc = "off"
    /\ b_script = "socialfact_batch_02"
    /\ b_api = "reliable"
    /\ BLocals

\* One iteration of the loop of main: the API call, the append, the periodic save
BProcessRow(outcome) ==
    /\ UNCHANGED notBatch
    /\ b_pc = "loop"
    /\ Len(b_results) < RowLimit
    /\ outcome = "raise" => b_api = "faulty"
    /\ b_outcomes' = Append(b_outcomes, outcome)
    /\ LET count == Len(b_results) + 1
           appended == Append(b_results, BatchRecord(count, Analysis(count, outcome)))
       IN IF ~SaveDue(count)
          THEN /\ b_results' = appended
               /\ UNCHANGED <<output_folder, batch_number, b_writes>>
          ELSE IF b_script = "socialfact_batch_02"
          THEN /\ b_results' = appended
               /\ output_folder' = WriteFile(output_folder, BatchResultsFile, appended)
               /\ b_writes' = Append(b_writes, BatchResultsFile)
               /\ UNCHANGED batch_number
          ELSE LET marked == MarkExtracted(appended, count - batch_size + 1, count) IN
               /\ b_results' = marked
               /\ output_folder' = WriteFile(output_folder, NumberedResultsFile(batch_number),
                                             LastN(marked, batch_size))
               /\ b_writes' = Append(b_writes, NumberedResultsFile(batch_number))
               /\ batch_number' = batch_number + 1
    /\ UNCHANGED <<b_pc, b_script, b_api>>

BRowOk == BProcessRow("ok")

BRowRaises == BProcessRow("raise")

\* The data is exhausted: the final save of socialfact_batch_02 (line 148), the
\* save of the remaining results of socialfact_batch_03 (lines 224-227)
BFinish ==
    /\ UNCHANGED notBatch
    /\ b_pc = "loop"
    /\ b_pc' = "done"
    /\ IF b_script = "socialfact_batch_02"
       THEN /\ output_folder' = WriteFile(output_folder, BatchResultsFile, b_results)
            /\ b_writes' = Append(b_writes, BatchResultsFile)
            /\ UNCHANGED b_results
       ELSE IF Len(b_results) % batch_size # 0
       THEN LET remaining == Len(b_results) % batch_size
                marked == MarkExtracted(b_results, Len(b_results) - remaining + 1,
                                        Len(b_results))
            IN /\ b_results' = marked
               /\ output_folder' = WriteFile(output_folder, NumberedResultsFile(batch_number),
                                             LastN(marked, remaining))
               /\ b_writes' = Append(b_writes, NumberedResultsFile(batch_number))
       ELSE UNCHANGED <<b_results, output_folder, b_writes>>
    /\ UNCHANGED <<b_script, b_api, batch_number, b_outcomes>>

\* The operator terminates the process between two rows
BKill ==
    /\ UNCHANGED notBatch
    /\ b_pc = "loop"
    /\ b_pc' = "killed"
    /\ UNCHANGED <<b_script, b_api, b_results, batch_number, output_folder, b_writes,
                   b_outcomes>>

BNext == BRowOk \/ BRowRaises \/ BFinish \/ BKill

(***************************************************************************)
(* AgentPassive_tag_01.py, compcrit_tag_03.py, institution_tag_02.py       *)
(***************************************************************************)
\* A variant that hides the exception: the failing row gets an ordinary text
TagAnalysisHidesError(row, outcome) == ResponseText(row)

\* analyze_agency_expressions: response.message.content[0].text, or
\* f"Error: {str(e)}"
TagAnalysis(row, outcome) ==
    IF outcome = "raise" THEN ErrorText ELSE ResponseText(row)

\* result = {'target': ..., 'year': ..., 'text': ..., 'analysis': analysis}
TagRecord(row, analysis) == [row |-> row, analysis |-> analysis]

\* A variant that forgets the last, shorter batch
TotalBatchesFloor(n, bs) == n \div bs

\* len(df) // batch_size + (1 if len(df) % batch_size else 0)
TotalBatches(n, bs) == (n \div bs) + (IF n % bs # 0 THEN 1 ELSE 0)

\* start_idx = batch_num * batch_size
StartIdx(bn, bs) == bn * bs

\* A variant whose end index is inclusive
EndIdxInclusive(bn, bs, n) == Min((bn + 1) * bs + 1, n)

\* end_idx = min((batch_num + 1) * batch_size, len(df))
EndIdx(bn, bs, n) == Min((bn + 1) * bs, n)

\* str(batch_num): the decimal digits of a natural number
RECURSIVE DecimalDigits(_)
DecimalDigits(k) ==
    IF k < 10 THEN <<k>> ELSE Append(DecimalDigits(k \div 10), k % 10)

\* Code points of the characters that tell two names batch_<k>.jsonl apart:
\* the digits of k and the "." that follows them
DigitCode(d) == 48 + d

DotCode == 46

BatchFileName(k) ==
    [j \in 1..Len(DecimalDigits(k)) |-> DigitCode(DecimalDigits(k)[j])] \o <<DotCode>>

\* Python's comparison of two strings: by the first differing character
RECURSIVE StrLess(_, _)
StrLess(a, b) ==
    IF b = <<>> THEN FALSE
    ELSE IF a = <<>> THEN TRUE
    ELSE IF Head(a) # Head(b) THEN Head(a) < Head(b)
    ELSE StrLess(Tail(a), Tail(b))

\* sorted(temp_dir.glob('batch_*.jsonl')): the batch numbers in the order of
\* their file names
RECURSIVE SortedBatchFiles(_)
SortedBatchFiles(S) ==
    IF S = {} THEN <<>>
    ELSE LET first == CHOOSE x \in S :
                         \A y \in S \ {x} : StrLess(BatchFileName(x), BatchFileName(y))
         IN <<first>> \o SortedBatchFiles(S \ {first})

\* outfile.write(infile.read()) for every temp file, in that order
RECURSIVE Concatenated(_, _)
Concatenated(dir, order) ==
    IF order = <<>> THEN <<>>
    ELSE dir[Head(order)] \o Concatenated(dir, Tail(order))

CombinedOutput(dir) == Concatenated(dir, SortedBatchFiles(DOMAIN dir))

EmptyTempDir == [k \in {} |-> <<>>]

\* A variant that leaves a temp file that is already there as it is
WriteTempFileKeepExisting(dir, bn, results) ==
    IF bn \in DOMAIN dir THEN dir
    ELSE [k \in (DOMAIN dir) \cup {bn} |-> IF k = bn THEN results ELSE dir[k]]

\* open(temp_file, 'w') and one line per result of the batch
WriteTempFile(dir, bn, results) ==
    [k \in (DOMAIN dir) \cup {bn} |-> IF k = bn THEN results ELSE dir[k]]

TagRowLimit(api) == IF api = "faulty" THEN MaxFaultyTagRows ELSE MaxTagRows

TLocals ==
    /\ t_runs = 0
    /\ t_api = "reliable"
    /\ t_nRows = 0
    /\ t_batch_size = 1
    /\ temp_dir = EmptyTempDir
    /\ output_path = <<>>
    /\ t_batch_num = 0
    /\ t_results = <<>>
    /\ t_outcomes = <<>>
    /\ t_preview = "none"
    /\ t_sent = <<>>

TInit == t_pc = "idle" /\ TLocals

TOff == t_pc = "off" /\ TLocals

\* main, lines 71-136: read the input, make the temp directory, take the batch
\* size and call the API for the first row (df.iloc[0] raises on an empty df)
TStart ==
    /\ UNCHANGED notTag
    /\ t_pc \in {"idle", "killed", "done", "exited", "raised"}
    /\ t_runs < MaxTagRuns
    /\ t_runs' = t_runs + 1
    /\ t_api' \in {"reliable", "faulty"}
    /\ t_nRows' \in 0..TagRowLimit(t_api')
    /\ t_batch_size' \in 1..MaxTagBatch
    /\ t_batch_num' = 0
    /\ t_results' = <<>>
    /\ t_outcomes' = <<>>
    /\ IF t_nRows' = 0
       THEN t_pc' = "raised" /\ t_preview' = "none" /\ t_sent' = <<>>
       ELSE /\ t_pc' = "preview"
            /\ t_preview' \in (IF t_api' = "faulty" THEN {"ok", "raise"} ELSE {"ok"})
            /\ t_sent' = <<1>>
    /\ UNCHANGED <<temp_dir, output_path>>

\* "Continue with this output format? (y/n)"
TConfirm ==
    /\ UNCHANGED notTag
    /\ t_pc = "preview"
    /\ \E answer \in {"y", "n"} :
          t_pc' = IF answer = "y" THEN "batches" ELSE "exited"
    /\ UNCHANGED <<t_runs, t_api, t_nRows, t_batch_size, temp_dir, output_path,
                   t_batch_num, t_results, t_outcomes, t_preview, t_sent>>

InTagLoop == t_pc = "batches" /\ t_batch_num < TotalBatches(t_nRows, t_batch_size)

\* One iteration of the loop of process_batch; after the last row of the batch
\* main writes the temp file batch_<batch_num>.jsonl (lines 164-168)
TProcessRow(outcome) ==
    /\ UNCHANGED notTag
    /\ InTagLoop
    /\ outcome = "raise" => t_api = "faulty"
    /\ LET row == StartIdx(t_batch_num, t_batch_size) + Len(t_results) + 1
           results == Append(t_results, TagRecord(row, TagAnalysis(row, outcome)))
       IN /\ t_outcomes' = Append(t_outcomes, outcome)
          /\ t_sent' = Append(t_sent, row)
          /\ IF row < EndIdx(t_batch_num, t_batch_size, t_nRows)
             THEN /\ t_results' = results
                  /\ UNCHANGED <<temp_dir, t_batch_num>>
             ELSE /\ temp_dir' = WriteTempFile(temp_dir, t_batch_num, results)
                  /\ t_batch_num' = t_batch_num + 1
                  /\ t_results' = <<>>
    /\ UNCHANGED <<t_pc, t_runs, t_api, t_nRows, t_batch_size, output_path, t_preview>>

TRowOk == TProcessRow("ok")

TRowRaises == TProcessRow("raise")

\* Lines 172-183: combine the temp files into the output, remove the temp directory
TCombine ==
    /\ UNCHANGED notTag
    /\ t_pc = "batches"
    /\ t_batch_num >= TotalBatches(t_nRows, t_batch_size)
    /\ output_path' = <<CombinedOutput(temp_dir)>>
    /\ temp_dir' = EmptyTempDir
    /\ t_pc' = "done"
    /\ UNCHANGED <<t_runs, t_api, t_nRows, t_batch_size, t_batch_num, t_results,
                   t_outcomes, t_preview, t_sent>>

\* The run is interrupted
TKill ==
    /\ UNCHANGED notTag
    /\ t_pc \in {"preview", "batches"}
    /\ t_pc' = "killed"
    /\ UNCHANGED <<t_runs, t_api, t_nRows, t_batch_size, temp_dir, output_path,
                   t_batch_num, t_results, t_outcomes, t_preview, t_sent>>

TNext == TStart \/ TConfirm \/ TRowOk \/ TRowRaises \/ TCombine \/ TKill

(***************************************************************************)
(* run_inductive_relationship_01.py                                        *)
(***************************************************************************)
\* {'doc_id': ..., 'target_iso': ..., 'source_country': ..., 'year': ..., 'analysis': result}
GroupRecord(group) == [group |-> group, analysis |-> ResponseText(group)]

\* A variant that records a failing group with an error marker
GroupResultsWithErrorRecord(results, group, outcome) ==
    Append(results, IF outcome = "ok" THEN GroupRecord(group)
                    ELSE [group |-> group, analysis |-> ErrorText])

\* Lines 93-107: the result is appended when run_prompt returns; when it
\* raises the error is printed and the loop continues
GroupResultsAfter(results, group, outcome) ==
    IF outcome = "ok" THEN Append(results, GroupRecord(group)) ELSE results

\* Save intermediate results every 10 documents
intermediate_every == 10

\* if i % 10 == 0, reached only when run_prompt returned
IntermediateDue(i, outcome) == outcome = "ok" /\ i % intermediate_every = 0

\* f'intermediate_results_{i}.jsonl'
IntermediateFile(i) == <<"intermediate_results_", i, ".jsonl">>

FinalResultsFile == <<"final_results.jsonl">>

RaiseCount(outcomes) == Cardinality({k \in 1..Len(outcomes) : outcomes[k] = "raise"})

IInit ==
    /\ i_pc = "loop"
    /\ i_results = <<>>
    /\ i_outcomes = <<>>
    /\ i_output_dir = EmptyFolder

IOff ==
    /\ i_pc = "off"
    /\ i_results = <<>>
    /\ i_outcomes = <<>>
    /\ i_output_dir = EmptyFolder

\* One iteration of the loop over grouped_data.items(), lines 80-111
IProcessGroup(outcome) ==
    /\ UNCHANGED notInd
    /\ i_pc = "loop"
    /\ Len(i_outcomes) < MaxGroups
    /\ outcome = "raise" => RaiseCount(i_outcomes) < MaxGroupErrors
    /\ LET i == Len(i_outcomes) + 1
           results == GroupResultsAfter(i_results, i, outcome)
       IN /\ i_results' = results
          /\ i_outcomes' = Append(i_outcomes, outcome)
          /\ i_output_dir' = IF IntermediateDue(i, outcome)
                             THEN WriteFile(i_output_dir, IntermediateFile(i), results)
                             ELSE i_output_dir
    /\ UNCHANGED i_pc

IGroupOk == IProcessGroup("ok")

IGroupRaises == IProcessGroup("raise")

\* Lines 113-115: the groups are exhausted, save the final results
IFinish ==
    /\ UNCHANGED notInd
    /\ i_pc = "loop"
    /\ i_output_dir' = WriteFile(i_output_dir, FinalResultsFile, i_results)
    /\ i_pc' = "done"
    /\ UNCHANGED <<i_results, i_outcomes>>

INext == IGroupOk \/ IGroupRaises \/ IFinish

(***************************************************************************)
(* typology_01.py                                                          *)
(***************************************************************************)
\* batch_size: int = 20
typology_batch_size == 20

\* for i in range(0, len(data), batch_size): batches.append(data[i:i + batch_size])
RECURSIVE BatchesFrom(_, _, _)
BatchesFrom(data, bs, i) ==
    IF i >= Len(data) THEN <<>>
    ELSE <<Slice(data, i, i + bs)>> \o BatchesFrom(data, bs, i + bs)

ProcessBatches(data, bs) == BatchesFrom(data, bs, 0)

\* The entries read from the input file, identified by their position
TypologyData == [k \in 1..y_nRows |-> k]

\* parse_markdown_response: one record for every summary of the response with
\* all its fields; what the model answered decides which rows those are
\* ("all": every row of the batch, "some": all but the last, "none": no row)
ParsedResults(batch, batch_num, answer) ==
    LET rows == IF answer = "all" THEN batch
                ELSE IF answer = "some" THEN SubSeq(batch, 1, Len(batch) - 1)
                ELSE <<>>
    IN [k \in 1..Len(rows) |-> [Row |-> rows[k], batch_num |-> batch_num]]

\* Lines 285-294: all_results.extend(results), or "continue" when the batch raised
TypologyResultsAfter(all, batch, batch_num, outcome) ==
    IF outcome = "raise" THEN all ELSE all \o ParsedResults(batch, batch_num, outcome)

YBatches == ProcessBatches(TypologyData, typology_batch_size)

YInit ==
    /\ y_pc = "start"
    /\ y_nRows \in 0..MaxTypRows
    /\ y_all_results = <<>>
    /\ y_outcomes = <<>>
    /\ y_output = <<>>

YOff ==
    /\ y_pc = "off"
    /\ y_nRows = 0
    /\ y_all_results = <<>>
    /\ y_outcomes = <<>>
    /\ y_output = <<>>

\* Lines 258-277: read the input (ValueError when it holds no valid entry)
YStart ==
    /\ UNCHANGED notTyp
    /\ y_pc = "start"
    /\ y_pc' = IF y_nRows = 0 THEN "raised" ELSE "loop"
    /\ UNCHANGED <<y_nRows, y_all_results, y_outcomes, y_output>>

\* One iteration of the loop over the batches, lines 281-294
YProcessBatch(outcome) ==
    /\ UNCHANGED notTyp
    /\ y_pc = "loop"
    /\ Len(y_outcomes) < Len(YBatches)
    /\ LET batch_num == Len(y_outcomes) + 1 IN
       y_all_results' = TypologyResultsAfter(y_all_results, YBatches[batch_num],
                                             batch_num, outcome)
    /\ y_outcomes' = Append(y_outcomes, outcome)
    /\ UNCHANGED <<y_pc, y_nRows, y_output>>

YBatchParsed == \E answer \in {"all", "some", "none"} : YProcessBatch(answer)

YBatchRaises == YProcessBatch("raise")

\* Lines 296-301: save the results, unless there are none
YFinish ==
    /\ UNCHANGED notTyp
    /\ y_pc = "loop"
    /\ Len(y_outcomes) = Len(YBatches)
    /\ y_output' = IF y_all_results # <<>> THEN <<y_all_results>> ELSE y_output
    /\ y_pc' = "done"
    /\ UNCHANGED <<y_nRows, y_all_results, y_outcomes>>

YNext == YStart \/ YBatchParsed \/ YBatchRaises \/ YFinish

(***************************************************************************)
(* Batch segmentation: process_batches of typology_01.py / typology_02.py  *)
(* and the slices df.iloc[start_idx:end_idx] of the tagging scripts        *)
(***************************************************************************)
\* The batches batch_df of the loop of main, lines 155-160 of AgentPassive_tag_01
TagSlices(data, bs) ==
    [b \in 1..TotalBatches(Len(data), bs) |->
        Slice(data, StartIdx(b - 1, bs), EndIdx(b - 1, bs, Len(data)))]

SInit ==
    /\ s_pc = "input"
    /\ s_data \in {[k \in 1..n |-> k] : n \in 0..MaxSegRows}
    /\ s_batch_size \in 1..MaxSegBatch
    /\ s_batches = <<>>

SOff ==
    /\ s_pc = "off"
    /\ s_data = <<>>
    /\ s_batch_size = 1
    /\ s_batches = <<>>

\* process_batches(data, batch_size)
SProcessBatches ==
    /\ UNCHANGED notSeg
    /\ s_pc = "input"
    /\ s_batches' = ProcessBatches(s_data, s_batch_size)
    /\ s_pc' = "process_batches"
    /\ UNCHANGED <<s_data, s_batch_size>>

\* The slices of the loop over range(total_batches)
STagSlices ==
    /\ UNCHANGED notSeg
    /\ s_pc = "input"
    /\ s_batches' = TagSlices(s_data, s_batch_size)
    /\ s_pc' = "slices"
    /\ UNCHANGED <<s_data, s_batch_size>>

SNext == SProcessBatches \/ STagSlices

(***************************************************************************)
(* sample_and_preprocess_01.py                                             *)
(***************************************************************************)
\* load_existing_log: the ids of the log file, none when there is no file
LoadExistingLog(log) == IF log = <<>> THEN {} ELSE log[1]

\* A variant of update_log that writes the new ids only
UpdateLogNewIdsOnly(log, new_ids) == <<new_ids>>

\* update_log: the ids of the file, updated with the new ids, written back
UpdateLog(log, new_ids) == <<(IF log = <<>> THEN {} ELSE log[1]) \cup new_ids>>

\* available_data: the rows whose doc_id is not logged (rows named by position)
AvailableData(data, logged_ids) == {r \in 1..Len(data) : data[r] \notin logged_ids}

\* sampled_ids
SampledIds(data, rows) == {data[r] : r \in rows}

PInit ==
    /\ p_pc = "idle"
    /\ source_data \in UNION {[1..n -> 1..MaxDocIds] : n \in 0..MaxDocs}
    /\ log_file = <<>>
    /\ sampled_rounds = <<>>

POff ==
    /\ p_pc = "off"
    /\ source_data = <<>>
    /\ log_file = <<>>
    /\ sampled_rounds = <<>>

\* sample_data(num_samples, log_file) returns: random.sample picks any
\* num_samples of the available rows
PSample ==
    /\ UNCHANGED notSample
    /\ p_pc \in {"idle", "returned", "raised"}
    /\ Len(sampled_rounds) < MaxRounds
    /\ LET available == AvailableData(source_data, LoadExistingLog(log_file)) IN
       \E sampled \in SUBSET available :
          /\ sampled_rounds' = Append(sampled_rounds, sampled)
          /\ log_file' = UpdateLog(log_file, SampledIds(source_data, sampled))
    /\ p_pc' = "returned"
    /\ UNCHANGED source_data

\* sample_data raises ValueError("Not enough unsampled data available.")
PNotEnough ==
    /\ UNCHANGED notSample
    /\ p_pc \in {"idle", "returned", "raised"}
    /\ \E num_samples \in 1..(MaxDocs + 1) :
          num_samples > Cardinality(AvailableData(source_data, LoadExistingLog(log_file)))
    /\ p_pc' = "raised"
    /\ UNCHANGED <<source_data, log_file, sampled_rounds>>

PNext == PSample \/ PNotEnough

(***************************************************************************)
(* iso_posteval_patterns_drops_01.py                                        *)
(***************************************************************************)
\* The keys a line of a JSONL file may have and the values under them; a
\* line is a JSON object, a function from some of the keys to values
EntryKeys == {"state", "ISO_Code"}

EntryValues == {"drop", "NaN"}

Entries == UNION {[ks -> EntryValues] : ks \in (SUBSET EntryKeys) \ {{}}}

\* [json.loads(line) for line in f] of an existing file, [] for no master file
LoadJsonl(file) == IF file = <<>> THEN <<>> ELSE file[1]

\* pd.DataFrame(records).columns: every key of every record
Columns(records) == UNION {DOMAIN records[i] : i \in 1..Len(records)}

\* pd.DataFrame(records): one row per record over all the columns, NaN where
\* the record has no such key
DataFrame(records) ==
    [i \in 1..Len(records) |->
        [k \in Columns(records) |->
            IF k \in DOMAIN records[i] THEN records[i][k] ELSE "NaN"]]

\* DataFrame.drop_duplicates(): the first occurrence of every row, in order
RECURSIVE DropDuplicates(_)
DropDuplicates(rows) ==
    IF rows = <<>> THEN <<>>
    ELSE LET front == DropDuplicates(SubSeq(rows, 1, Len(rows) - 1))
             last == rows[Len(rows)]
         IN IF last \in Range(front) THEN front ELSE Append(front, last)

\* combined_data of merge_jsonl
CombinedData(master, new) == DropDuplicates(DataFrame(LoadJsonl(master) \o new))

MInit ==
    /\ m_pc = "idle"
    /\ master_file \in {<<>>} \cup {<<es>> : es \in UNION {[1..n -> Entries] : n \in 0..MaxEntries}}
    /\ new_file \in UNION {[1..n -> Entries] : n \in 0..MaxEntries}
    /\ m_before = <<>>
    /\ m_merges = 0

MOff ==
    /\ m_pc = "off"
    /\ master_file = <<>>
    /\ new_file = <<>>
    /\ m_before = <<>>
    /\ m_merges = 0

\* merge_jsonl(new_file, master_file)
MMerge ==
    /\ UNCHANGED notMerge
    /\ m_pc \in {"idle", "merged"}
    /\ m_merges < MaxMerges
    /\ master_file' = <<CombinedData(master_file, new_file)>>
    /\ m_before' = master_file
    /\ m_merges' = m_merges + 1
    /\ m_pc' = "merged"
    /\ UNCHANGED new_file

MNext == MMerge

(***************************************************************************)
(* RAG/rerank_02.py: process_document                                       *)
(***************************************************************************)
\* The orders in which co.rerank may return n documents (top_n = n)
RerankOrders(n) ==
    {f \in [1..n -> 1..n] : \A a, b \in 1..n : a # b => f[a] # f[b]}

\* full_data.index[full_data['chunk_id'] == chunk['chunk_id']].tolist()[0]:
\* the first row of full_data that has the chunk_id of the given row
ChunkIdx(chunk_ids, row) ==
    CHOOSE k \in 1..Len(chunk_ids) :
        /\ chunk_ids[k] = chunk_ids[row]
        /\ \A j \in 1..(k - 1) : chunk_ids[j] # chunk_ids[row]

\* full_data.at[chunk_idx, column] = value for the chunk of one result
SetAt(column, chunk_ids, row, value) ==
    [column EXCEPT ![ChunkIdx(chunk_ids, row)] = value]

\* The same for every result of response.results[i+1:] (i 0-based), in order
RECURSIVE SetRemaining(_, _, _, _, _)
SetRemaining(column, chunk_ids, results, i, value) ==
    IF i + 1 >= Len(results) THEN column
    ELSE SetRemaining(SetAt(column, chunk_ids, results[i + 2], value),
                      chunk_ids, results, i + 1, value)

\* main, lines 165-166 and the call of line 184: the columns are None
RInit ==
    /\ r_pc = "called"
    /\ r_chunk_ids \in UNION {[1..n -> 1..n] : n \in 1..MaxDocChunks}
    /\ r_results = <<>>
    /\ r_i = 0
    /\ human_annotation = [row \in 1..Len(r_chunk_ids) |-> "None"]
    /\ relevance_score = [row \in 1..Len(r_chunk_ids) |-> "None"]
    /\ r_choice = "none"
    /\ r_status = "none"

ROff ==
    /\ r_pc = "off"
    /\ r_chunk_ids = <<>>
    /\ r_results = <<>>
    /\ r_i = 0
    /\ human_annotation = <<>>
    /\ relevance_score = <<>>
    /\ r_choice = "none"
    /\ r_status = "none"

\* Lines 85-92: co.rerank returns every chunk of the document, in some order
RRerank ==
    /\ UNCHANGED notRerank
    /\ r_pc = "called"
    /\ r_results' \in RerankOrders(Len(r_chunk_ids))
    /\ r_pc' = "annotate"
    /\ UNCHANGED <<r_chunk_ids, r_i, human_annotation, relevance_score, r_choice, r_status>>

\* Lines 94-116: the user enters 0 or 1 for the chunk shown; after the last
\* chunk the loop ends and line 149 returns "next"
RAnnotate ==
    /\ UNCHANGED notRerank
    /\ r_pc = "annotate"
    /\ \E annotation \in {"0", "1"} :
          human_annotation' = SetAt(human_annotation, r_chunk_ids, r_results[r_i + 1],
                                    annotation)
    /\ relevance_score' = SetAt(relevance_score, r_chunk_ids, r_results[r_i + 1], "score")
    /\ IF r_i < Len(r_results) - 1
       THEN r_pc' = "menu" /\ UNCHANGED r_status
       ELSE r_pc' = "returned" /\ r_status' = "next"
    /\ UNCHANGED <<r_chunk_ids, r_results, r_i, r_choice>>

\* Option 1: continue to the next chunk
RContinue ==
    /\ UNCHANGED notRerank
    /\ r_pc = "menu"
    /\ r_i' = r_i + 1
    /\ r_pc' = "annotate"
    /\ UNCHANGED <<r_chunk_ids, r_results, human_annotation, relevance_score, r_choice,
                   r_status>>

\* Option 2, lines 132-138: mark the remaining chunks "NaN" and return "exit"
RExitNaN ==
    /\ UNCHANGED notRerank
    /\ r_pc = "menu"
    /\ human_annotation' = SetRemaining(human_annotation, r_chunk_ids, r_results, r_i, "NaN")
    /\ relevance_score' = SetRemaining(relevance_score, r_chunk_ids, r_results, r_i, "score")
    /\ r_choice' = "2"
    /\ r_status' = "exit"
    /\ r_pc' = "returned"
    /\ UNCHANGED <<r_chunk_ids, r_results, r_i>>

\* Options 3 and 4, lines 139-145: mark the remaining chunks 0
RMarkZero ==
    /\ UNCHANGED notRerank
    /\ r_pc = "menu"
    /\ human_annotation' = SetRemaining(human_annotation, r_chunk_ids, r_results, r_i, "0")
    /\ relevance_score' = SetRemaining(relevance_score, r_chunk_ids, r_results, r_i, "score")
    /\ \E choice \in {"3", "4"} :
          /\ r_choice' = choice
          /\ r_status' = IF choice = "4" THEN "next" ELSE "exit"
    /\ r_pc' = "returned"
    /\ UNCHANGED <<r_chunk_ids, r_results, r_i>>

\* Option 5, lines 146-147: return "save"
RExitSave ==
    /\ UNCHANGED notRerank
    /\ r_pc = "menu"
    /\ r_choice' = "5"
    /\ r_status' = "save"
    /\ r_pc' = "returned"
    /\ UNCHANGED <<r_chunk_ids, r_results, r_i, human_annotation, relevance_score>>

RNext == RRerank \/ RAnnotate \/ RContinue \/ RExitNaN \/ RMarkZero \/ RExitSave

(***************************************************************************)
(* batch_doc_retrieval_01.py: BatchDocumentRetriever.process_documents      *)
(***************************************************************************)
\* What retrieve_all_targets meets for one target country: a NaN target, no
\* country name, no chunks, reranked chunks, an empty reranking, an exception
\* of rerank_chunks (fallback to the chunks retrieved), any other exception
TargetOutcomes == {"nan", "no_name", "no_chunks", "reranked", "rerank_empty",
                   "rerank_raises", "raises"}

\* The outcomes after which results[target_iso] is set (lines 155-162)
StoredOutcomes == {"reranked", "rerank_raises"}

\* retrieve_all_targets: the targets of the document that get an entry in results
Results(outcomes) == {t \in 1..Len(outcomes) : outcomes[t] \in StoredOutcomes}

\* self.stats of __init__ with total_documents = len(doc_ids)
NewStats(total) == [total_documents |-> total, successful_documents |-> 0,
                    failed_documents |-> 0, total_targets_processed |-> 0]

\* A variant that leaves the counters as they are
CountFailedForgotten(st) == st

\* self.stats['failed_documents'] += 1
CountFailed(st) == [st EXCEPT !.failed_documents = @ + 1]

\* Lines 257-258
CountSuccessful(st, results) ==
    [st EXCEPT !.successful_documents = @ + 1,
               !.total_targets_processed = @ + Cardinality(results)]

\* Lines 214-232: the targets and chunks are loaded, the counters are those
\* of __init__ (lines 37-43) with total_documents set
DInit ==
    /\ d_pc = "loop"
    /\ d_stats \in {NewStats(total) : total \in 0..MaxRetrDocs}
    /\ d_idx = 0
    /\ d_paths = <<>>
    /\ d_files = {}

DOff ==
    /\ d_pc = "off"
    /\ d_stats = NewStats(0)
    /\ d_idx = 0
    /\ d_paths = <<>>
    /\ d_files = {}

InDocLoop == d_pc = "loop" /\ d_idx < d_stats.total_documents

\* Lines 237-241: the document has no chunks
DNoChunks ==
    /\ UNCHANGED notRetr
    /\ InDocLoop
    /\ d_stats' = CountFailed(d_stats)
    /\ d_idx' = d_idx + 1
    /\ d_paths' = Append(d_paths, "no_chunks")
    /\ UNCHANGED <<d_pc, d_files>>

\* Lines 243-270: retrieve_all_targets returns; the results are saved when
\* there are any
DRetrieved ==
    /\ UNCHANGED notRetr
    /\ InDocLoop
    /\ \E outcomes \in UNION {[1..n -> TargetOutcomes] : n \in 0..MaxTargets} :
          LET results == Results(outcomes) IN
          IF results # {}
          THEN /\ d_stats' = CountSuccessful(d_stats, results)
               /\ d_files' = d_files \cup {d_idx + 1}
               /\ d_paths' = Append(d_paths, "saved")
          ELSE /\ d_stats' = CountFailed(d_stats)
               /\ d_paths' = Append(d_paths, "no_results")
               /\ UNCHANGED d_files
    /\ d_idx' = d_idx + 1
    /\ UNCHANGED d_pc

\* Lines 272-274: an exception before the results are saved (the chunk filter,
\* the embedding lookup, open or json.dump)
DException ==
    /\ UNCHANGED notRetr
    /\ InDocLoop
    /\ d_stats' = CountFailed(d_stats)
    /\ d_idx' = d_idx + 1
    /\ d_paths' = Append(d_paths, "exception")
    /\ UNCHANGED <<d_pc, d_files>>

\* Lines 276-286: the documents are exhausted, the stats are saved
DFinish ==
    /\ UNCHANGED notRetr
    /\ d_pc = "loop"
    /\ d_idx >= d_stats.total_documents
    /\ d_pc' = "done"
    /\ UNCHANGED <<d_stats, d_idx, d_paths, d_files>>

DNext == DNoChunks \/ DRetrieved \/ DException \/ DFinish

(***************************************************************************)
(* Specifications: one script family runs, the others stay off.            *)
(***************************************************************************)
UtilOff == POff /\ MOff /\ ROff /\ DOff

OthersOff == IOff /\ YOff /\ SOff /\ UtilOff

InitEmbed == EInit /\ VOff /\ BOff /\ TOff /\ OthersOff

SpecEmbed == InitEmbed /\ [][ENext]_vars

InitEval == EOff /\ VInit /\ BOff /\ TOff /\ OthersOff

SpecEval == InitEval /\ [][VNext]_vars

InitBatch == EOff /\ VOff /\ BInit /\ TOff /\ OthersOff

SpecBatch == InitBatch /\ [][BNext]_vars

InitTag == EOff /\ VOff /\ BOff /\ TInit /\ OthersOff

SpecTag == InitTag /\ [][TNext]_vars

\* The scripts that capture a failing API call of a row as data
InitBatchTag == EOff /\ VOff /\ ((BInit /\ TOff) \/ (BOff /\ TInit)) /\ OthersOff

\* The script is invoked again, with the same input and batch size, after a
\* run that was interrupted
TRestartSame ==
    /\ t_pc = "killed"
    /\ TStart
    /\ t_nRows' = t_nRows
    /\ t_batch_size' = t_batch_size

\* One invocation of a tagging script
TFirstRun == t_runs = 0 /\ TStart

TOneRun == TFirstRun \/ TConfirm \/ TRowOk \/ TRowRaises \/ TCombine \/ TKill

SpecBatchTag == InitBatchTag /\ [][BNext \/ TOneRun]_vars

SpecTagOneRun == InitTag /\ [][TOneRun]_vars

\* Invocations of a tagging script on one input with one batch size
SpecTagResume == InitTag /\ [][TOneRun \/ TRestartSame]_vars

\* The scripts that write checkpoints of all the results so far
InitCheckpoints ==
    \/ EInit /\ VOff /\ BOff /\ TOff /\ OthersOff
    \/ EOff /\ VOff /\ BInit /\ TOff /\ OthersOff
    \/ EOff /\ VOff /\ BOff /\ TOff /\ IInit /\ YOff /\ SOff /\ UtilOff

SpecCheckpoints == InitCheckpoints /\ [][ENext \/ BNext \/ INext]_vars

ScriptsOff == EOff /\ VOff /\ BOff /\ TOff /\ IOff /\ YOff /\ SOff

InitSample == ScriptsOff /\ PInit /\ MOff /\ ROff /\ DOff

InitMerge == ScriptsOff /\ POff /\ MInit /\ ROff /\ DOff

SpecMerge == InitMerge /\ [][MNext]_vars

SpecSample == InitSample /\ [][PNext]_vars

InitRerank == ScriptsOff /\ POff /\ MOff /\ RInit /\ DOff

InitRetrieval == ScriptsOff /\ POff /\ MOff /\ ROff /\ DInit

SpecRetrieval == InitRetrieval /\ [][DNext]_vars

SpecRerank == InitRerank /\ [][RNext]_vars

InitSegment == EOff /\ VOff /\ BOff /\ TOff /\ IOff /\ YOff /\ SInit /\ UtilOff

SpecSegment == InitSegment /\ [][SNext]_vars

\* The scripts that skip a work unit whose API call raises
InitSkip == EOff /\ VOff /\ BOff /\ TOff /\ SOff /\ UtilOff /\ ((IInit /\ YOff) \/ (IOff /\ YInit))

SpecSkip == InitSkip /\ [][INext \/ YNext]_vars

(***************************************************************************)
(* Claims about ungdc_embedding_generator_01.py                            *)
(***************************************************************************)
AllYearRangeEmbeddings == EmbedResponse(YearRangeChunks)

\* C1: a run restarted after a kill that followed a numbered checkpoint embeds
\* exactly the chunks of the year range the checkpoint does not cover, and at
\* normal completion the final output holds one embedding for every chunk of
\* the year range.
C1_ResumeCoversYearRange ==
    (e_pc = "done" /\ e_prev = "killed" /\ start_idx > 0) =>
        /\ Len(chunks) = nChunks - start_idx
        /\ year_dir.embeddings_npy = <<AllYearRangeEmbeddings>>

\* C9: one top-level call of _generate_batch_embeddings makes at most
\* max_retries retries, hence at most max_retries + 1 calls of the embed API,
\* and sleeps at most max_retries times: the recursion is bounded.
C9_RetriesBounded ==
    /\ Len(api_log) <= max_retries + 1
    /\ retry_count <= max_retries
    /\ Len(last_sleep) <= max_retries
    /\ \A k \in 1..Len(api_log) : k < Len(api_log) => api_log[k] = "rate_limit"

C9_Witness ==
    /\ max_retries = 3
    /\ Len(api_log) = max_retries + 1
    /\ api_log[Len(api_log)] = "rate_limit"
    /\ e_pc = "raised"

\* C10: with max_retries >= 2, a batch whose embed call hits the rate limit
\* exactly twice and then succeeds is not aborted and not marked failed, and
\* its embeddings are appended exactly once, at the batch's position in input
\* order; the run continues with the next batch.
C10_TwoRateLimitsThenSuccess ==
    max_retries >= 2 =>
        /\ api_log = <<"rate_limit", "rate_limit">> =>
              /\ e_pc \in {"loop", "killed"}
              /\ year_dir.final_error = <<>>
        /\ api_log = <<"rate_limit", "rate_limit", "ok">> =>
              /\ e_pc \in {"loop", "killed", "done"}
              /\ year_dir.final_error = <<>>
              /\ all_embeddings = SubSeq(all_embeddings, 1, start_idx)
                                    \o EmbedResponse(Slice(chunks, 0, e_i))
              /\ Len(all_embeddings) = start_idx + Min(e_i, Len(chunks))
              /\ usage_stats.retried_calls >= 2

C10_Witness ==
    /\ api_log = <<"rate_limit", "rate_limit", "ok">>
    /\ e_pc = "loop"
    /\ e_i > e_batch_size
    /\ e_i < Len(chunks)

(***************************************************************************)
(* Claims about socialfact_eval_01.py and agency_eval_10.py                *)
(***************************************************************************)
IsWholeLine(line) == line.complete

\* The records of the whole lines of a results file
SavedRecords(file) ==
    LET whole == SelectSeq(file, IsWholeLine)
    IN [k \in 1..Len(whole) |-> whole[k].rec]

NoDuplicateRows(recs) ==
    \A a, b \in 1..Len(recs) : recs[a].Row = recs[b].Row => a = b

\* C2: over any sequence of runs against the same output folder and input
\* file, a row is sent to the API only if its Row id is absent from the
\* results loaded at startup, and the saved results file never holds two
\* records with the same Row id.
C2_NoReprocessNoDuplicate ==
    /\ \A k \in 1..Len(v_sent) : v_sent[k] \notin RowIds(v_loaded)
    /\ NoDuplicateRows(SavedRecords(results_file))
    /\ final_results_file # <<>> => NoDuplicateRows(SavedRecords(final_results_file[1]))

C2_Witness ==
    /\ v_runs = 2
    /\ v_pc = "done"
    /\ Len(v_loaded) = 1
    /\ Len(v_sent) = 1
    /\ Len(SavedRecords(results_file)) = 2

\* Every row of the input file has a record among the results loaded at startup
FullyRecorded == \A index \in 0..(v_nRows - 1) : index + 1 \in RowIds(v_loaded)

\* C3: after a run that recorded every row of the input, a second run against
\* the same output folder and input makes zero API calls and leaves the saved
\* result records unchanged.
C3_IdempotentResume ==
    (v_pc \in {"loop", "broke", "done", "killed"} /\ FullyRecorded) =>
        /\ v_sent = <<>>
        /\ results_file = WrittenFile(v_loaded)
        /\ (v_pc = "done" /\ v_script = "agency_eval_10") =>
               final_results_file = <<WrittenFile(v_loaded)>>

C3_Witness ==
    /\ v_runs = 2
    /\ v_pc = "done"
    /\ v_nRows = 2
    /\ FullyRecorded
    /\ v_pos = Len(v_data)
    /\ Len(v_data) = 2

\* C5: when a save of the results file fails or is killed part-way, the file
\* still holds a complete earlier snapshot: no previously saved result is lost.
C5_SaveKeepsSnapshot ==
    [][IsPrefix(SavedRecords(results_file), SavedRecords(results_file'))]_vars

(***************************************************************************)
(* Claims about socialfact_batch_02.py and socialfact_batch_03.py          *)
(***************************************************************************)
\* The records held by the files of the output folder
RecordsInFolder == UNION {Range(output_folder[f]) : f \in DOMAIN output_folder}

\* C4 (as claimed): when the process is terminated between two rows, the
\* results of all rows completed before are in the output folder.
C4_AllCompletedRowsSaved ==
    b_pc = "killed" => \A k \in 1..Len(b_results) : b_results[k] \in RecordsInFolder

\* The rows up to the last completed multiple of batch_size
LastSaveRow == batch_size * (Len(b_results) \div batch_size)

\* C4 (amended): when the process is terminated between two rows, the results
\* of the rows up to the last completed multiple of 50 are in the output
\* folder, in input order (one file batch_results.jsonl for socialfact_batch_02,
\* files of 50 rows for socialfact_batch_03); only the rows after it are lost,
\* fewer than 50.
C4_RowsUpToLastSaveKept ==
    b_pc = "killed" =>
        /\ \A k \in 1..LastSaveRow : b_results[k] \in RecordsInFolder
        /\ \A k \in 1..Len(b_results) : k > LastSaveRow => b_results[k] \notin RecordsInFolder
        /\ Len(b_results) - LastSaveRow < batch_size
        /\ (b_script = "socialfact_batch_02" /\ LastSaveRow > 0) =>
               output_folder[BatchResultsFile] = SubSeq(b_results, 1, LastSaveRow)
        /\ b_script = "socialfact_batch_03" =>
               \A num \in 1..(LastSaveRow \div batch_size) :
                   output_folder[NumberedResultsFile(num)] =
                       SubSeq(b_results, batch_size * (num - 1) + 1, batch_size * num)

C4_Witness ==
    /\ b_pc = "killed"
    /\ Len(b_results) = batch_size + 1
    /\ b_script = "socialfact_batch_03"

(***************************************************************************)
(* Claims about the tagging scripts                                        *)
(***************************************************************************)
\* The results of the rows of this run, in the order of the input DataFrame
ResultsInInputOrder ==
    [r \in 1..t_nRows |-> TagRecord(r, TagAnalysis(r, t_outcomes[r]))]

\* C6: for any number of input rows and any positive batch_size, the final
\* combined output lists the results in the order of the rows of the input
\* (first run, into an empty temp directory).
C6_OutputInInputOrder ==
    (t_pc = "done" /\ t_runs = 1) => output_path = <<ResultsInInputOrder>>

\* The rows for which the batch loop has called the API in this run
RowsCalled == Len(t_outcomes)

\* The results process_batch has produced for batch bn of this run
ProducedBatch(bn) == IF bn = t_batch_num THEN t_results ELSE temp_dir[bn]

BatchIsolated(bn) ==
    LET produced == ProducedBatch(bn)
        first == StartIdx(bn, t_batch_size)
    IN /\ Len(produced) = Min(EndIdx(bn, t_batch_size, t_nRows), RowsCalled) - first
       /\ \A j \in 1..Len(produced) :
             /\ produced[j].row = first + j
             /\ t_outcomes[first + j] = "raise" => StartsWithError(produced[j].analysis)
             /\ t_outcomes[first + j] = "ok" =>
                    produced[j].analysis = ResponseText(first + j)

\* C7: whatever rows' API calls raise, the loop visits every row and every row
\* yields exactly one result: an analysis beginning with "Error: " for a
\* failing row, the API response for every other row (socialfact_batch_03.main
\* and process_batch of the tagging scripts).
C7_PerRowFailureIsolation ==
    /\ b_script = "socialfact_batch_03" =>
          /\ Len(b_results) = Len(b_outcomes)
          /\ \A k \in 1..Len(b_results) :
                /\ b_results[k].Row = k
                /\ b_outcomes[k] = "raise" => StartsWithError(b_results[k].Analysis)
                /\ b_outcomes[k] = "ok" => b_results[k].Analysis = ResponseText(k)
    /\ t_pc = "batches" =>
          /\ \A bn \in 0..(TotalBatches(t_nRows, t_batch_size) - 1) :
                bn <= t_batch_num => BatchIsolated(bn)
          /\ t_batch_num >= TotalBatches(t_nRows, t_batch_size) => RowsCalled = t_nRows

C7_Witness ==
    /\ t_pc = "batches"
    /\ t_nRows = 4
    /\ t_batch_size = 2
    /\ t_batch_num = 2
    /\ t_outcomes = <<"ok", "raise", "raise", "ok">>

(***************************************************************************)
(* Claims about run_inductive_relationship_01.py and typology_01.py        *)
(***************************************************************************)
FinalGroupRecords == i_output_dir[FinalResultsFile]

RowsOfBatch(batch_num) == Range(YBatches[batch_num])

\* C8 (as claimed): a unit whose API call raises gets a result record holding
\* an error marker, so the final results file accounts for every input unit:
\* one record per document-target group, every row of every batch.
C8_EveryUnitAccounted ==
    /\ i_pc = "done" =>
          \A g \in 1..Len(i_outcomes) :
              \E k \in 1..Len(FinalGroupRecords) : FinalGroupRecords[k].group = g
    /\ y_pc = "done" =>
          \A b \in 1..Len(y_outcomes) : y_outcomes[b] = "raise" =>
              /\ y_output # <<>>
              /\ \A r \in RowsOfBatch(b) :
                    \E k \in 1..Len(y_output[1]) : y_output[1][k].Row = r

\* The groups whose call returned, in input order
RECURSIVE OkGroups(_, _)
OkGroups(outcomes, upto) ==
    IF upto = 0 THEN <<>>
    ELSE OkGroups(outcomes, upto - 1)
            \o (IF outcomes[upto] = "ok" THEN <<GroupRecord(upto)>> ELSE <<>>)

\* The parsed results of the batches whose call returned, in input order
RECURSIVE ParsedOfOkBatches(_, _)
ParsedOfOkBatches(outcomes, upto) ==
    IF upto = 0 THEN <<>>
    ELSE ParsedOfOkBatches(outcomes, upto - 1)
            \o (IF outcomes[upto] = "raise" THEN <<>>
                ELSE ParsedResults(YBatches[upto], upto, outcomes[upto]))

\* C8 (amended): a unit whose API call raises gets no result record, and
\* processing continues with the next unit: the results, and at the end the
\* final results file, hold one record for every group whose call returned
\* (respectively the rows parsed from the responses of the batches whose call
\* returned), in input order, and nothing for the failing units; typology_01
\* writes no file when no result was collected.
C8_FailedUnitsSkipped ==
    /\ i_pc \in {"loop", "done"} =>
          /\ i_results = OkGroups(i_outcomes, Len(i_outcomes))
          /\ i_pc = "done" => FinalGroupRecords = i_results
    /\ y_pc \in {"loop", "done"} =>
          /\ y_all_results = ParsedOfOkBatches(y_outcomes, Len(y_outcomes))
          /\ y_pc = "done" =>
                /\ Len(y_outcomes) = Len(YBatches)
                /\ y_output = IF y_all_results = <<>> THEN <<>> ELSE <<y_all_results>>

C8_Witness ==
    /\ i_pc = "done"
    /\ i_outcomes = <<"ok", "raise", "ok">>
    /\ Len(FinalGroupRecords) = 2

(***************************************************************************)
(* Claims about the retries and checkpoints of the embeddings generator    *)
(***************************************************************************)
\* The embed calls of the current batch all hit the rate limit, and there were
\* max_retries + 1 of them: the retries are exhausted
RetriesExhausted ==
    /\ Len(api_log) = max_retries + 1
    /\ \A k \in 1..Len(api_log) : api_log[k] = "rate_limit"

\* The embeddings of the chunks before the batch at position e_i of this run
EmbeddingsBeforeBatch ==
    SubSeq(all_embeddings, 1, start_idx) \o EmbedResponse(Slice(chunks, 0, e_i))

\* C11 (as claimed): when the embed call of a batch keeps hitting the rate
\* limit until the retries are exhausted, the run is not ended by it: it goes
\* on to the following batches.
C11_ExhaustionNotFatal == RetriesExhausted => e_pc \in {"loop", "killed", "done"}

\* C11 (amended): when the embed call of a batch keeps hitting the rate limit
\* until the retries are exhausted, the error is raised out of the batch loop:
\* the failed calls are counted, checkpoint_final_error is written with the
\* embeddings of the batches before, the batch and the batches after it are
\* not embedded and the run ends with the exception.  Fewer rate-limit errors
\* than max_retries + 1 do not end the run.
C11_ExhaustionEndsRun ==
    /\ RetriesExhausted =>
          /\ e_pc = "raised"
          /\ e_i < Len(chunks)
          /\ all_embeddings = EmbeddingsBeforeBatch
          /\ year_dir.final_error # <<>>
          /\ year_dir.final_error[1].embeddings = all_embeddings
          /\ usage_stats.failed_calls >= max_retries + 1
    /\ (api_log # <<>> /\ Len(api_log) <= max_retries
          /\ \A k \in 1..Len(api_log) : api_log[k] = "rate_limit") =>
          e_pc \in {"loop", "killed"}

C11_Witness ==
    /\ RetriesExhausted
    /\ max_retries = 1
    /\ e_i > 0
    /\ e_i + e_batch_size < Len(chunks)
    /\ e_pc = "raised"

\* C12: the waits before the successive retries of one batch grow
\* exponentially: each wait is the one before it multiplied by one and the
\* same factor, greater than 1 (last_sleep lists the waits of the batch).
C12_BackoffExponential ==
    /\ \A k \in 1..(Len(last_sleep) - 1) : last_sleep[k + 1] > last_sleep[k]
    /\ \A k \in 1..(Len(last_sleep) - 2) :
          last_sleep[k + 1] * last_sleep[k + 1] = last_sleep[k] * last_sleep[k + 2]

(***************************************************************************)
(* Claims about the snapshots of socialfact_batch_02.py                    *)
(***************************************************************************)
\* C13: socialfact_batch_02.main rewrites batch_results.jsonl after row 50*k
\* for every k >= 1 (and at no other row), each time with the results of rows
\* 1..50*k in input order, and writes it once more after the last row with
\* all n results.
C13_SnapshotCadence ==
    (b_script = "socialfact_batch_02" /\ b_pc # "off") =>
        /\ \A k \in 1..Len(b_results) : b_results[k].Row = k
        /\ \A w \in 1..Len(b_writes) : b_writes[w] = BatchResultsFile
        /\ b_pc \in {"loop", "killed"} =>
              /\ Len(b_writes) = Len(b_results) \div batch_size
              /\ LastSaveRow = 0 => output_folder = EmptyFolder
              /\ LastSaveRow > 0 =>
                    /\ DOMAIN output_folder = {BatchResultsFile}
                    /\ output_folder[BatchResultsFile] = SubSeq(b_results, 1, LastSaveRow)
        /\ b_pc = "done" =>
              /\ Len(b_writes) = (Len(b_results) \div batch_size) + 1
              /\ DOMAIN output_folder = {BatchResultsFile}
              /\ output_folder[BatchResultsFile] = b_results

C13_Witness ==
    /\ b_script = "socialfact_batch_02"
    /\ b_pc = "done"
    /\ Len(b_results) = 2 * batch_size + 1
    /\ Len(b_writes) = 3

(***************************************************************************)
(* Claims about the checkpoints of the embeddings generator                *)
(***************************************************************************)
\* The batches the loop of this run has processed so far
BatchesProcessed == e_i \div e_batch_size

\* The numbers of embeddings held by the numbered checkpoints of the directory
CheckpointSizes == {Len(year_dir.ckpt[n].embeddings) : n \in DOMAIN year_dir.ckpt}

\* C14: in a fresh run with checkpoint_frequency = N a numbered checkpoint is
\* written exactly when the number of batches processed so far is a positive
\* multiple of N: after the batches N, 2N, 3N, ... and after no other batch.
C14_CheckpointEveryN ==
    e_runs = 1 =>
        CheckpointSizes =
            {Min(j * checkpoint_frequency * e_batch_size, nChunks) :
                j \in 1..(BatchesProcessed \div checkpoint_frequency)}

(***************************************************************************)
(* Claims about successive checkpoints                                     *)
(***************************************************************************)
\* The checkpoints of the year directory: the numbered ones and the error one
EmbCheckpoints(dir) == {dir.ckpt[n] : n \in DOMAIN dir.ckpt} \cup Range(dir.final_error)

\* The checkpoints a step writes: those the directory did not hold before it
EmbCheckpointsGrow ==
    \A new \in EmbCheckpoints(year_dir') \ EmbCheckpoints(year_dir) :
        \A old \in EmbCheckpoints(year_dir) :
            /\ IsPrefix(old.embeddings, new.embeddings)
            /\ IsPrefix(old.chunks, new.chunks)

BatchSnapshotsGrow ==
    (b_script = "socialfact_batch_02" /\ output_folder' # output_folder) =>
        \A f \in DOMAIN output_folder :
            IsPrefix(output_folder[f], output_folder'[BatchResultsFile])

GroupFilesGrow ==
    \A g \in DOMAIN i_output_dir' :
        (g \notin DOMAIN i_output_dir \/ i_output_dir'[g] # i_output_dir[g]) =>
            \A f \in DOMAIN i_output_dir : IsPrefix(i_output_dir[f], i_output_dir'[g])

\* C15: within a run of generate_embeddings, socialfact_batch_02.main or
\* process_documents, every checkpoint written holds all the results of every
\* checkpoint written before it, in the same order: each earlier checkpoint is
\* a prefix of each later one.
C15_CheckpointsGrow ==
    [][EmbCheckpointsGrow /\ BatchSnapshotsGrow /\ GroupFilesGrow]_vars

C15_Witness ==
    /\ e_runs = 1
    /\ Cardinality(DOMAIN year_dir.ckpt) = 2
    /\ year_dir.final_error # <<>>

(***************************************************************************)
(* Claims about the error checkpoint of the embeddings generator           *)
(***************************************************************************)
\* The run ended with an exception raised by the embed call of the batch at
\* position e_i (a start that fails, or the final outputs failing, makes no call)
RaisedInLoop == e_pc = "raised" /\ api_log # <<>>

\* C16: when an exception is raised while batch b is processed, a checkpoint
\* holding exactly the embeddings accumulated from the batches before b, with
\* the chunk rows they belong to, has been written when the exception reaches
\* the caller.
C16_ErrorCheckpointWritten ==
    RaisedInLoop =>
        /\ e_i < Len(chunks)
        /\ year_dir.final_error # <<>>
        /\ LET ck == year_dir.final_error[1] IN
              /\ ck.embeddings = EmbeddingsBeforeBatch
              /\ Len(ck.embeddings) = start_idx + e_i
              /\ Len(ck.chunks) = Len(ck.embeddings)
              /\ \A k \in 1..Len(ck.chunks) : ck.embeddings[k] = Emb(ck.chunks[k])

C16_Witness ==
    /\ RaisedInLoop
    /\ api_log = <<"exception">>
    /\ e_batch_size = 1
    /\ e_i = 2
    /\ nChunks = 4
    /\ Len(year_dir.final_error[1].chunks) = 2

(***************************************************************************)
(* Claims about loading the latest checkpoint                              *)
(***************************************************************************)
\* The checkpoint of the directory that holds the most embeddings
LargestCheckpoint(dir) ==
    CHOOSE ck \in EmbCheckpoints(dir) :
        \A other \in EmbCheckpoints(dir) : Len(other.embeddings) <= Len(ck.embeddings)

\* C17: whatever checkpoints earlier runs left in the year directory, also a
\* run that ended with an exception, _load_latest_checkpoint succeeds at the
\* next start and returns the checkpoint written last, which holds the most
\* embeddings.
C17_LatestCheckpointLoaded ==
    [][(e_runs' = e_runs + 1 /\ HasCheckpoints(year_dir)) =>
          /\ e_pc' = "loop"
          /\ all_embeddings' = LargestCheckpoint(year_dir).embeddings]_vars

(***************************************************************************)
(* Claims about restarting and calling the API in the tagging scripts      *)
(***************************************************************************)
\* The results this run's calls have produced for the rows of batch bn
ResultsOfBatch(bn) ==
    LET first == StartIdx(bn, t_batch_size)
        last == EndIdx(bn, t_batch_size, t_nRows)
    IN [j \in 1..(last - first) |->
           TagRecord(first + j, TagAnalysis(first + j, t_outcomes[first + j]))]

\* C18 (as claimed): when the script is invoked again with the same input,
\* output path and batch size after an interrupted run, it processes only the
\* rows whose results are not persisted yet: no row of a batch whose temp
\* file batch_<k>.jsonl is there already is processed.
C18_RestartSkipsPersisted ==
    [][(t_runs >= 2 /\ Len(t_outcomes') = Len(t_outcomes) + 1) =>
          t_batch_num \notin DOMAIN temp_dir]_vars

\* C18 (amended): when the script is invoked again with the same input,
\* output path and batch size after an interrupted run, it reads nothing of
\* what is persisted: after the example call for the first row it processes
\* every input row again, from the first batch on, and overwrites each temp
\* file batch_<k>.jsonl with the new results of the rows of batch k.
C18_RestartProcessesEveryRow ==
    (t_runs >= 2 /\ t_pc \in {"preview", "batches", "killed", "exited", "done"}) =>
        /\ t_sent = <<1>> \o [k \in 1..RowsCalled |-> k]
        /\ RowsCalled = Min(StartIdx(t_batch_num, t_batch_size), t_nRows) + Len(t_results)
        /\ t_pc \in {"batches", "killed"} =>
              \A bn \in 0..(t_batch_num - 1) :
                  /\ bn \in DOMAIN temp_dir
                  /\ temp_dir[bn] = ResultsOfBatch(bn)
        /\ t_pc = "done" => RowsCalled = t_nRows

C18_Witness ==
    /\ t_runs = 2
    /\ t_pc = "batches"
    /\ t_nRows = 4
    /\ t_batch_size = 2
    /\ t_batch_num = 1
    /\ Len(t_results) = 1
    /\ 1 \in DOMAIN temp_dir

\* The number of calls of the API for row r in this run
ApiCalls(r) == Cardinality({k \in 1..Len(t_sent) : t_sent[k] = r})

\* C19 (as claimed): in an uninterrupted run in which the user confirms the
\* preview the API is called exactly once for every input row.
C19_EachRowSentOnce ==
    t_pc = "done" => \A r \in 1..t_nRows : ApiCalls(r) = 1

\* C19 (amended): in an uninterrupted run in which the user confirms the
\* preview the batch loop calls the API exactly once for every input row, in
\* input order, and the first row is sent once more before it, for the
\* preview: two calls for the first row, one for every other row.
C19_FirstRowSentTwice ==
    t_pc = "done" =>
        /\ Len(t_sent) = t_nRows + 1
        /\ t_sent = <<1>> \o [k \in 1..t_nRows |-> k]
        /\ \A r \in 1..t_nRows : ApiCalls(r) = IF r = 1 THEN 2 ELSE 1

C19_Witness ==
    /\ t_pc = "done"
    /\ t_batch_size = 2
    /\ t_sent = <<1, 1, 2, 3>>

(***************************************************************************)
(* Claims about the batch segmentation                                     *)
(***************************************************************************)
\* ceil(n / bs): the least k with k * bs >= n
CeilDiv(n, bs) == CHOOSE k \in 0..n : k * bs >= n /\ (k = 0 \/ (k - 1) * bs < n)

RECURSIVE Flatten(_)
Flatten(batches) ==
    IF batches = <<>> THEN <<>> ELSE Head(batches) \o Flatten(Tail(batches))

\* C20: for every input of n rows and every positive batch_size the rows are
\* split into exactly ceil(n / batch_size) contiguous batches whose
\* concatenation is the input in order; every batch has batch_size rows,
\* except possibly the last, which has between 1 and batch_size rows
\* (process_batches of typology_01 / typology_02 and the slices of the
\* tagging scripts).
C20_BatchSegmentation ==
    s_pc \in {"process_batches", "slices"} =>
        /\ Len(s_batches) = CeilDiv(Len(s_data), s_batch_size)
        /\ Flatten(s_batches) = s_data
        /\ \A b \in 1..(Len(s_batches) - 1) : Len(s_batches[b]) = s_batch_size
        /\ s_batches # <<>> =>
              /\ Len(s_batches[Len(s_batches)]) >= 1
              /\ Len(s_batches[Len(s_batches)]) <= s_batch_size

C20_Witness ==
    /\ s_pc = "slices"
    /\ Len(s_data) = 7
    /\ s_batch_size = 3
    /\ s_batches = <<<<1, 2, 3>>, <<4, 5, 6>>, <<7>>>>

(***************************************************************************)
(* Claims about sample_and_preprocess_01.py                                *)
(***************************************************************************)
\* The doc_ids returned by round k
RoundIds(rounds, k) == SampledIds(source_data, rounds[k])

AllRoundIds(rounds) == UNION {RoundIds(rounds, k) : k \in 1..Len(rounds)}

\* C21: over the sampling rounds that use one log file no doc_id is returned
\* by more than one round, the set of ids of the log only grows, and after
\* each successful round it is the union of the ids returned by all rounds
\* so far.
C21_RoundsDisjointLogGrows ==
    [][/\ LoadExistingLog(log_file) \subseteq LoadExistingLog(log_file')
       /\ \A j, k \in 1..Len(sampled_rounds') :
             j # k => RoundIds(sampled_rounds', j) \cap RoundIds(sampled_rounds', k) = {}
       /\ p_pc' = "returned" =>
             /\ log_file' # <<>>
             /\ log_file'[1] = AllRoundIds(sampled_rounds')]_vars

C21_Witness ==
    /\ p_pc = "returned"
    /\ Len(sampled_rounds) = 2
    /\ Len(source_data) = 3
    /\ sampled_rounds[1] # {}
    /\ sampled_rounds[2] # {}
    /\ Cardinality(log_file[1]) = 2

(***************************************************************************)
(* Claims about iso_posteval_patterns_drops_01.py                           *)
(***************************************************************************)
Occurrences(entry, entries) == Cardinality({i \in 1..Len(entries) : entries[i] = entry})

\* C22: after merge_jsonl(new_file, master_file) the master file contains
\* every distinct entry of the old master file and of the new file exactly
\* once (and nothing else), and merging the same new file a second time
\* leaves the master file unchanged.
C22_MergeUnionIdempotent ==
    [][m_merges' = m_merges + 1 =>
          /\ \A entry \in Range(LoadJsonl(master_file)) \cup Range(new_file) :
                Occurrences(entry, LoadJsonl(master_file')) = 1
          /\ Range(LoadJsonl(master_file')) =
                Range(LoadJsonl(master_file)) \cup Range(new_file)
          /\ m_merges' = 2 => master_file' = master_file]_vars

(***************************************************************************)
(* Claims about running ungdc_embedding_generator_01.py again               *)
(***************************************************************************)
\* The final outputs cover every chunk of the year range
CompleteOutput(dir) ==
    /\ dir.embeddings_npy = <<AllYearRangeEmbeddings>>
    /\ dir.chunks_csv = <<YearRangeChunks>>

\* C23: generate_embeddings called again for a year range whose previous run
\* completed normally leaves embeddings.npy and
\* chunks_with_embedding_index.csv covering every chunk of the year range: a
\* completed output is never replaced by a smaller one.
C23_RerunKeepsCompleteOutput ==
    [][/\ (e_pc' = "done" /\ e_prev' = "done") => CompleteOutput(year_dir')
       /\ (e_prev' = "done" /\ CompleteOutput(year_dir)) =>
             /\ Len(year_dir'.embeddings_npy[1]) >= Len(year_dir.embeddings_npy[1])
             /\ Len(year_dir'.chunks_csv[1]) >= Len(year_dir.chunks_csv[1])]_vars

(***************************************************************************)
(* Claims about what an earlier run left in the temp directory             *)
(***************************************************************************)
\* C24: whatever an earlier interrupted run (possibly with another batch size
\* or another input) left in the temp directory, the final combined output of
\* a completed run contains exactly one record for every input row of the
\* current run and nothing produced by an earlier run.
C24_OutputOfCurrentRunOnly ==
    t_pc = "done" =>
        /\ Len(output_path[1]) = t_nRows
        /\ Range(output_path[1]) = Range(ResultsInInputOrder)

(***************************************************************************)
(* Claims about the intermediate results of run_inductive_relationship_01  *)
(***************************************************************************)
\* C25: intermediate results are saved every 10 documents: for every i that
\* is a multiple of 10 and at most the number of groups,
\* intermediate_results_<i>.jsonl is written once group i has been handled,
\* whether the API call for group i succeeded or raised.
C25_IntermediateEveryTen ==
    \A i \in 1..Len(i_outcomes) :
        i % intermediate_every = 0 => IntermediateFile(i) \in DOMAIN i_output_dir

(***************************************************************************)
(* Claims about the batch files of socialfact_batch_03                     *)
(***************************************************************************)
\* The results of rows batch_size*(k-1)+1 .. min(batch_size*k, n), in input order
RowsOfBatchFile(k, n) ==
    [j \in 1..(Min(batch_size * k, n) - batch_size * (k - 1)) |->
        b_results[batch_size * (k - 1) + j]]

RowsShown == {r_results[k] : k \in 1..(r_i + 1)}

\* C27: whenever process_document returns with a status other than "save"
\* (all chunks annotated, or menu option 2, 3 or 4), every row of the document
\* in full_data has human_annotation and relevance_score set: the 0 or 1
\* entered for the chunks shown, "NaN" for the remaining ones under option 2,
\* 0 under options 3 and 4; no row is left at None.
C27_EveryRowAnnotated ==
    (r_pc = "returned" /\ r_status # "save") =>
        \A row \in 1..Len(r_chunk_ids) :
            /\ relevance_score[row] # "None"
            /\ human_annotation[row] # "None"
            /\ row \in RowsShown => human_annotation[row] \in {"0", "1"}
            /\ (row \notin RowsShown /\ r_choice = "2") => human_annotation[row] = "NaN"
            /\ (row \notin RowsShown /\ r_choice \in {"3", "4"}) => human_annotation[row] = "0"

(***************************************************************************)
(* Claims about the alignment of embeddings and chunk rows                 *)
(***************************************************************************)
\* As many embeddings as chunk rows, embedding i being that of chunk row i
Aligned(embeddings, rows) ==
    /\ Len(embeddings) = Len(rows)
    /\ \A i \in 1..Len(rows) : embeddings[i] = Emb(rows[i])

\* C28: with an embed API that returns one embedding per input text, in
\* order, every checkpoint and every final output written holds as many
\* embeddings as chunk rows, and embedding i is the embedding of chunk row i
\* (in the final output: of the row with embedding_index i), in fresh and in
\* resumed runs.
C28_EmbeddingsAlignedWithRows ==
    /\ \A ck \in EmbCheckpoints(year_dir) : Aligned(ck.embeddings, ck.chunks)
    /\ IF year_dir.chunks_csv # <<>>
       THEN /\ year_dir.embeddings_npy # <<>>
            /\ Aligned(year_dir.embeddings_npy[1], year_dir.chunks_csv[1])
            /\ year_dir.metadata = <<[num_chunks |-> Len(year_dir.embeddings_npy[1])]>>
       ELSE year_dir.embeddings_npy \in {<<>>, << <<>> >>}

\* A resumed run has written its final output from a checkpoint of two rows
C28_Witness ==
    /\ e_pc = "done"
    /\ e_prev = "killed"
    /\ start_idx = 2
    /\ nChunks = 3
    /\ Len(year_dir.chunks_csv[1]) = 2
    /\ Cardinality(EmbCheckpoints(year_dir)) = 2

(***************************************************************************)
(* Claims about batch_doc_retrieval_01.py                                   *)
(***************************************************************************)
\* C29: after each iteration of the loop of process_documents
\* successful_documents + failed_documents equals the number of documents
\* iterated so far, whichever path the iteration took (no chunks, no results,
\* results saved, exception), so at the end the sum equals total_documents.
C29_CountersSumToIterated ==
    /\ d_stats.successful_documents + d_stats.failed_documents = d_idx
    /\ d_idx = Len(d_paths)
    /\ d_pc = "done" =>
          d_stats.successful_documents + d_stats.failed_documents = d_stats.total_documents

C29_Witness ==
    /\ d_pc = "done"
    /\ d_paths = <<"no_chunks", "no_results", "saved", "exception">>
    /\ d_stats.successful_documents = 1
    /\ d_stats.failed_documents = 3

(***************************************************************************)
(* Claims about errors that are no rate-limit errors                       *)
(***************************************************************************)
\* The embed API has just answered a request with an error whose message
\* does not mention a rate limit
OtherApiError ==
    /\ e_pc = "loop"
    /\ api_log' # <<>>
    /\ api_log'[Len(api_log')] = "error"
    /\ e_runs' = e_runs

\* C30: an API error whose message does not mention a rate limit is never
\* retried: the call of _generate_batch_embeddings that receives it has made
\* exactly one request, does not wait, increments failed_calls by exactly
\* one, leaves retried_calls unchanged and re-raises the error.
C30_OtherErrorNotRetried ==
    [][OtherApiError =>
          /\ api_log' = Append(IF retry_count = 0 THEN <<>> ELSE api_log, "error")
          /\ retry_count' = retry_count
          /\ last_sleep' = (IF retry_count = 0 THEN <<>> ELSE last_sleep)
          /\ usage_stats'.failed_calls = usage_stats.failed_calls + 1
          /\ usage_stats'.retried_calls = usage_stats.retried_calls
          /\ usage_stats'.total_api_calls = usage_stats.total_api_calls
          /\ all_embeddings' = all_embeddings
          /\ e_pc' = "raised"]_vars

C30_Witness ==
    /\ e_pc = "raised"
    /\ max_retries = 3
    /\ api_log = <<"error">>
    /\ last_sleep = <<>>
    /\ usage_stats.failed_calls = 1
    /\ usage_stats.retried_calls = 0
    /\ e_i > 0

====
